---- MODULE Spec2Model ----
(***************************************************************************)
(* A model of kokia, a debugger for async Rust programs.                   *)
(*                                                                         *)
(* The async tracker (kokia-async): the task table, the edge table, the    *)
(* callsite table and the per-thread poll scopes, driven by on_poll_entry, *)
(* on_poll_exit and resync_from_stack.                                     *)
(*                                                                         *)
(* The breakpoint manager (kokia-core) with the software breakpoints and   *)
(* the memory of the target (kokia-target), and the debugger's             *)
(* continue_and_wait with the handlers of the async breakpoints.           *)
(*                                                                         *)
(* Values.  u64 task ids, rips, addresses and discriminants are small      *)
(* naturals.  Option<T> is a sequence of length at most one: None is <<>>, *)
(* Some(x) is <<x>>; a Result is an Option whose None is Err.  A HashMap   *)
(* is a function whose DOMAIN is the set of keys present.  An Instant is a *)
(* natural number read from the variable clock.                            *)
(***************************************************************************)
EXTENDS Integers, Sequences, FiniteSets, TLC

VARIABLES
    tasks,      \* TaskTracker.tasks        : TaskId     -> TaskInfo
    edges,      \* EdgeTracker.edges        : EdgeId     -> Edge
    callsites,  \* CallsiteTracker.callsites: CallsiteId -> Callsite
    scopes,     \* ThreadPollScopeManager.scopes : Tid   -> PollScope.stack
    clock,      \* the monotonic clock behind Instant::now()
    steps,      \* the number of tracker calls made so far
    last,       \* history: the last tracker call, its arguments and what it touched
    pending,    \* history: per thread, the stack as it was before an entry that no
                \*          other event of that thread has followed yet
    open,       \* history: per thread, parallel to the scope, the edge that the
                \*          entry which pushed each element created or touched
    born,       \* history: per edge id, which endpoints were in the task table
                \*          when the edge was inserted
    parented,   \* history: the tasks for which some entry selected a parent
    chain,      \* history: progress of the linear-chain scenario (0 = fresh .. 5),
                \*          None once the run has left the scenario
    interned,   \* history: every callsite registration, in order: the callsite
                \*          handed to CallsiteTracker::register and the id it returned
    breakpoints, \* BreakpointManager.breakpoints : BreakpointId -> (Breakpoint, SoftwareBreakpoint)
    next_id,    \* BreakpointManager.next_id
    memory,     \* the target's memory : address -> byte (the mapped addresses)
    removed,    \* history: the addresses of the breakpoints removed so far
    pc,         \* the program counter of the stopped target
    async_exit_bps_installed, \* Debugger.async_exit_bps_installed: function starts
    phase,      \* the position of the debugger inside continue_and_wait
    hit,        \* the target thread that ran into the trap of the last stop
    ran,        \* history: where the last single step ran and the byte it executed
    stop,       \* history: the last stop continue_and_wait reported
    entered,    \* history: the functions whose entry breakpoint has been handled
    process,    \* Debugger.process, with it Debugger.memory and Debugger.registers:
                \*   None until spawn or attach, then the handles of the target
    arg,        \* the arguments of the call under study
    ret         \* what the last call returned

\* the tracker and its histories
trackerVars == <<tasks, edges, callsites, scopes, clock, steps, last, pending, open, born,
                 parented, chain, interned>>

\* the breakpoint table, the target and their histories
targetVars == <<breakpoints, next_id, memory, removed, pc, async_exit_bps_installed,
                phase, hit, ran, stop, entered, process, arg, ret>>

\* the debugger's registers, position and histories
debuggerVars == <<pc, async_exit_bps_installed, phase, hit, ran, stop, entered,
                  process, arg, ret>>

\* the handles of the target, the arguments and the value of the last call
callVars == <<process, arg, ret>>

vars == <<tasks, edges, callsites, scopes, clock, steps, last, pending, open, born,
          parented, chain, interned, breakpoints, next_id, memory, removed, pc,
          async_exit_bps_installed, phase, hit, ran, stop, entered, process, arg, ret>>

-----------------------------------------------------------------------------
(* Bounds of the model *)

MaxSteps     == 3    \* tracker calls in one run of Spec and of SpecResync
MaxEdgeSteps == 4    \* tracker calls in one run of SpecEdges
MaxActual    == 1    \* longest task list handed to resync_from_stack in Spec
MaxStack     == 3    \* longest task list handed to resync_from_stack in SpecResync

\* the values the traced program hands to the tracker
Tids          == {1, 2}     \* thread ids
TaskIds       == {1, 2}     \* self pointers of the generators polled
Discriminants == {0}        \* suspension-point indices read from a generator

-----------------------------------------------------------------------------
(* Option<T> *)

None       == <<>>
Some(x)    == <<x>>
OptionOf(S) == {None} \cup {Some(x) : x \in S}

\* Option::or_else
OrElse(o, alt) == IF o # None THEN o ELSE alt

\* slice::last().copied()
LastOf(s) == IF Len(s) = 0 THEN None ELSE Some(s[Len(s)])

\* all sequences over S of length at most n
SeqsUpTo(S, n) == UNION {[1..k -> S] : k \in 0..n}

\* Result: Ok(value) and Err(message)
Ok(value) == [ok |-> TRUE, value |-> value]
Err(message) == [ok |-> FALSE, error |-> message]

\* HashMap::entry(k).or_insert(v): an existing value wins
MapOrInsert(m, k, v) == IF k \in DOMAIN m THEN m ELSE m @@ (k :> v)

-----------------------------------------------------------------------------
(* compute_hash!: the values are fed to one hasher in order and the result  *)
(* is widened to u128.  The hasher is modelled as a positional encoding     *)
(* over HashRadix (every value of the model is a digit below HashRadix), so *)
(* it is a function of the values fed and nothing else, and it does not     *)
(* collide on the values of the model.                                      *)

HashRadix == 8

\* Hash::hash of a u64 / u32
HashFeed(h, v) == h * HashRadix + v

\* Hash::hash of an Option: the discriminant, then the payload
HashFeedOption(h, o) == IF o = None THEN HashFeed(h, 0) ELSE HashFeed(HashFeed(h, 1), o[1])

\* Hash::hash of a u128 (a callsite id: up to five digits)
HashFeedWide(h, v) == h * (HashRadix ^ 5) + v

\* a callsite id from a hasher that is seeded anew for every call
CallsiteComputeIdSeeded(cs) ==
    HashFeed(HashFeedOption(HashFeedOption(HashFeedOption(HashFeed(0, cs.parent),
        cs.suspend_idx), cs.file), cs.line), clock)

\* Callsite::compute_id
CallsiteComputeId(cs) ==
    HashFeedOption(HashFeedOption(HashFeedOption(HashFeed(0, cs.parent),
        cs.suspend_idx), cs.file), cs.line)

\* an edge id hashed from the whole record, first_seen included
EdgeComputeIdWithTime(e) ==
    HashFeed(HashFeedWide(HashFeed(HashFeed(0, e.parent), e.child), e.callsite), e.first_seen)

\* Edge::compute_id
EdgeComputeId(e) == HashFeedWide(HashFeed(HashFeed(0, e.parent), e.child), e.callsite)

-----------------------------------------------------------------------------
(* Records *)

\* TaskInfo::new
TaskInfoNew(id, now) ==
    [id |-> id, type_name |-> None, first_seen |-> now, last_seen |-> now,
     current_discriminant |-> None, last_rip |-> None, is_root |-> FALSE,
     completed |-> FALSE, logical_stack |-> <<>>]

\* a touch that also restarts the record's first_seen
TaskTouchRestart(t, now) == [t EXCEPT !.last_seen = now, !.first_seen = now]

\* TaskInfo::touch
TaskTouch(t, now) == [t EXCEPT !.last_seen = now]

\* Edge::new
EdgeNew(parent, child, callsite, now) ==
    [parent |-> parent, child |-> child, callsite |-> callsite,
     first_seen |-> now, last_seen |-> now, completed |-> FALSE]

\* Edge::touch
EdgeTouch(e, now) == [e EXCEPT !.last_seen = now]

-----------------------------------------------------------------------------
(* The tables *)

\* TaskTracker::register
TaskRegister(ts, task) == MapOrInsert(ts, task.id, task)

\* CallsiteTracker::register: the id, and the table after or_insert
CallsiteRegister(cs, callsite) == MapOrInsert(cs, CallsiteComputeId(callsite), callsite)

\* a register_or_update that inserts the new edge over an existing one
RegisterOrUpdateInsert(es, parent, child, callsite, now) ==
    LET edge    == EdgeNew(parent, child, callsite, now)
        edge_id == EdgeComputeId(edge)
    IN  IF edge_id \in DOMAIN es
        THEN [es EXCEPT ![edge_id] = edge]
        ELSE es @@ (edge_id :> edge)

\* EdgeTracker::register_or_update: entry(id).and_modify(touch).or_insert(edge)
RegisterOrUpdate(es, parent, child, callsite, now) ==
    LET edge    == EdgeNew(parent, child, callsite, now)
        edge_id == EdgeComputeId(edge)
    IN  IF edge_id \in DOMAIN es
        THEN [es EXCEPT ![edge_id] = EdgeTouch(@, now)]
        ELSE es @@ (edge_id :> edge)

\* EdgeTracker::edges_by_parent, as the set of keys
EdgesByParent(es, parent) == {k \in DOMAIN es : es[k].parent = parent}

\* EdgeTracker::mark_completed
MarkCompleted(es, edge_id) ==
    IF edge_id \in DOMAIN es THEN [es EXCEPT ![edge_id].completed = TRUE] ELSE es

\* for edge_id in edge_ids { mark_completed(edge_id) }
RECURSIVE MarkEach(_, _)
MarkEach(es, edge_ids) ==
    IF edge_ids = {} THEN es
    ELSE LET id == CHOOSE i \in edge_ids : TRUE
         IN  MarkEach(MarkCompleted(es, id), edge_ids \ {id})

-----------------------------------------------------------------------------
(* PollScope: the stack, bottom first *)

\* a push at the wrong end of the stack
PollScopePushFront(stack, task_id) == <<task_id>> \o stack

\* PollScope::push
PollScopePush(stack, task_id) == Append(stack, task_id)

\* a pop that leaves a null task on a stack that was empty
PollScopePopUnderflow(stack) ==
    IF Len(stack) = 0 THEN <<0>> ELSE SubSeq(stack, 1, Len(stack) - 1)

\* a pop that clears the scope
PollScopePopAll(stack) == <<>>

\* PollScope::pop: the stack that is left
PollScopePop(stack) == IF Len(stack) = 0 THEN stack ELSE SubSeq(stack, 1, Len(stack) - 1)

\* PollScope::top (also the value PollScope::pop returns)
PollScopeTop(stack) == LastOf(stack)

\* a prefix loop without its break: the last position where the stacks agree
CommonLenNoBreak(stack, actual_stack, i) ==
    LET agree == {j \in 1..Len(stack) : j <= Len(actual_stack) /\ stack[j] = actual_stack[j]}
    IN  IF agree = {} THEN 0 ELSE CHOOSE j \in agree : \A k \in agree : k <= j

\* the loop of PollScope::resync: the length of the longest common prefix
RECURSIVE CommonLen(_, _, _)
CommonLen(stack, actual_stack, i) ==
    IF i < Len(stack) /\ i < Len(actual_stack) /\ stack[i + 1] = actual_stack[i + 1]
    THEN CommonLen(stack, actual_stack, i + 1)
    ELSE i

\* PollScope::resync: truncate to the common prefix, push the rest of actual_stack
PollScopeResync(stack, actual_stack) ==
    LET common_len == CommonLen(stack, actual_stack, 0)
    IN  SubSeq(stack, 1, common_len) \o SubSeq(actual_stack, common_len + 1, Len(actual_stack))

\* ThreadPollScopeManager::get_or_create: the map with the thread's scope present
GetOrCreate(sc, tid) == MapOrInsert(sc, tid, <<>>)

\* ThreadPollScopeManager::get(tid).and_then(|scope| scope.top())
ScopeTop(sc, tid) == IF tid \in DOMAIN sc THEN PollScopeTop(sc[tid]) ELSE None

\* AsyncTracker::scan_parent_genfuture: a stub
ScanParentGenfuture(tid) == None

\* a parent search that stops at the frame-scan stub
FindParentTaskScanOnly(sc, tid) == ScanParentGenfuture(tid)

\* AsyncTracker::find_parent_task
FindParentTask(sc, tid) == OrElse(ScanParentGenfuture(tid), ScopeTop(sc, tid))

\* a backtrace that reads the scope of thread 1 whichever thread is asked for
AsyncBacktraceOfFirst(tid) == IF 1 \in DOMAIN scopes THEN scopes[1] ELSE <<>>

\* AsyncTracker::async_backtrace
AsyncBacktrace(tid) == IF tid \in DOMAIN scopes THEN scopes[tid] ELSE <<>>

-----------------------------------------------------------------------------
(* History kept beside the tracker's state *)

\* the record of one tracker call
Call(op, tid, child, parent_task, is_ready, actual, edge, pre, popped) ==
    [op |-> op, tid |-> tid, child |-> child, parent_task |-> parent_task,
     is_ready |-> is_ready, actual |-> actual, edge |-> edge, pre |-> pre,
     popped |-> popped]

\* the linear chain of thread 1: the tasks R, A, B
ChainTasks == <<1, 2, 3>>

\* the scenario's next position after the call c, None once the run has left it
ChainNext(c) ==
    IF chain = None THEN None
    ELSE LET n == chain[1]
         IN  IF /\ n < 3 /\ c.op = "entry" /\ c.tid = 1
                /\ c.child = Some(ChainTasks[n + 1]) /\ c.parent_task = None
             THEN Some(n + 1)
             ELSE IF /\ n \in {3, 4} /\ c.op = "exit" /\ c.tid = 1 /\ c.is_ready
             THEN Some(n + 1)
             ELSE None

-----------------------------------------------------------------------------
(* AsyncTracker *)

\* a parent selection that prefers the scope top to the explicit parent
SelectParentScopeFirst(sc, tid, parent_task) == OrElse(ScopeTop(sc, tid), parent_task)

\* on_poll_entry, step 1: explicit parent first, then the top of the thread's scope
SelectParent(sc, tid, parent_task) == OrElse(parent_task, ScopeTop(sc, tid))

\* on_poll_entry, step 2, with the name of the last entry kept
UpsertTaskLastName(ts, child, rip, discriminant, function_name, now) ==
    IF child \in DOMAIN ts
    THEN [ts EXCEPT ![child] =
            [TaskTouch(@, now) EXCEPT
                !.last_rip = Some(rip),
                !.current_discriminant = IF discriminant # None THEN discriminant ELSE @,
                !.type_name = IF function_name # None THEN function_name ELSE @]]
    ELSE TaskRegister(ts,
            [TaskInfoNew(child, now) EXCEPT
                !.last_rip = Some(rip),
                !.type_name = function_name,
                !.current_discriminant = IF discriminant # None THEN discriminant ELSE @])

\* on_poll_entry, step 2: update the child's task or register a new one
UpsertTask(ts, child, rip, discriminant, function_name, now) ==
    IF child \in DOMAIN ts
    THEN [ts EXCEPT ![child] =
            [TaskTouch(@, now) EXCEPT
                !.last_rip = Some(rip),
                !.current_discriminant = IF discriminant # None THEN discriminant ELSE @,
                !.type_name = IF @ = None /\ function_name # None THEN function_name ELSE @]]
    ELSE TaskRegister(ts,
            [TaskInfoNew(child, now) EXCEPT
                !.last_rip = Some(rip),
                !.type_name = function_name,
                !.current_discriminant = IF discriminant # None THEN discriminant ELSE @])

\* on_poll_entry, step 3: the callsite built for the selected parent
\* (file and line are None: the lookup is a TODO in the tracker; the cast of
\* the discriminant to u32 keeps every value of the model)
EntryCallsite(ts, parent_id) ==
    [parent      |-> parent_id,
     suspend_idx |-> IF parent_id \in DOMAIN ts THEN ts[parent_id].current_discriminant ELSE None,
     file        |-> None,
     line        |-> None]

\* on_poll_entry, else branch of step 3: the child is a root task
MarkRoot(ts, child) == IF child \in DOMAIN ts THEN [ts EXCEPT ![child].is_root = TRUE] ELSE ts

\* AsyncTracker::on_poll_entry.  Every Instant::now() of one call reads the
\* same clock value, and the clock advances between calls.
OnPollEntry(tid, child_self, rip, parent_task, discriminant, function_name) ==
    /\ LET now         == clock
           child       == child_self
           parent      == SelectParent(scopes, tid, parent_task)
           tasks1      == UpsertTask(tasks, child, rip, discriminant, function_name, now)
           parent_id   == parent[1]
           callsite    == EntryCallsite(tasks1, parent_id)
           callsite_id == CallsiteComputeId(callsite)
           edge_id     == EdgeComputeId(EdgeNew(parent_id, child, callsite_id, now))
           touched     == IF parent # None THEN Some(edge_id) ELSE None
       IN  /\ tasks'     = IF parent # None THEN tasks1 ELSE MarkRoot(tasks1, child)
           /\ callsites' = IF parent # None THEN CallsiteRegister(callsites, callsite)
                                            ELSE callsites
           /\ edges'     = IF parent # None
                           THEN RegisterOrUpdate(edges, parent_id, child, callsite_id, now)
                           ELSE edges
           /\ scopes'    = [GetOrCreate(scopes, tid) EXCEPT ![tid] = PollScopePush(@, child)]
           /\ clock'     = clock + 1
           /\ last'      = Call("entry", tid, Some(child), parent_task, FALSE, <<>>,
                                touched, None, None)
           /\ pending'   = [pending EXCEPT ![tid] = Some(AsyncBacktrace(tid))]
           /\ open'      = [open EXCEPT ![tid] = Append(@, touched)]
           /\ born'      = IF parent # None /\ edge_id \notin DOMAIN edges
                           THEN born @@ (edge_id :> [parent |-> parent_id \in DOMAIN tasks1,
                                                     child  |-> child \in DOMAIN tasks1])
                           ELSE born
           /\ parented'  = IF parent # None THEN parented \cup {child} ELSE parented
           /\ interned'  = IF parent # None
                           THEN Append(interned, [callsite |-> callsite, id |-> callsite_id])
                           ELSE interned
           /\ chain'     = ChainNext(last')

\* AsyncTracker::on_poll_exit, run on the scope map sc (with the histories
\* op and pend that belong to it)
OnPollExitIn(sc, op, pend, tid, rip, is_ready) ==
    LET sc1       == GetOrCreate(sc, tid)
        child     == PollScopeTop(sc1[tid])
        sc2       == [sc1 EXCEPT ![tid] = PollScopePop(@)]
        child_id  == child[1]
        parent    == FindParentTask(sc2, tid)
        parent_id == parent[1]
        edge_ids  == {EdgeComputeId(edges[k]) :
                        k \in {j \in EdgesByParent(edges, parent_id) : edges[j].child = child_id}}
    IN  /\ scopes' = sc2
        /\ edges'  = IF child # None /\ is_ready /\ parent # None
                     THEN MarkEach(edges, edge_ids)
                     ELSE edges
        /\ tasks'  = IF child # None /\ is_ready /\ child_id \in DOMAIN tasks
                     THEN [tasks EXCEPT ![child_id].completed = TRUE]
                     ELSE tasks
        /\ UNCHANGED <<callsites, clock, born, parented, interned>>
        /\ last'    = Call("exit", tid, None, None, is_ready, <<>>,
                           IF Len(op[tid]) = 0 THEN None ELSE op[tid][Len(op[tid])],
                           pend[tid], child)
        /\ pending' = [pend EXCEPT ![tid] = None]
        /\ open'    = [op EXCEPT ![tid] = IF Len(@) = 0 THEN @ ELSE SubSeq(@, 1, Len(@) - 1)]
        /\ chain'   = ChainNext(last')

\* AsyncTracker::on_poll_exit
OnPollExit(tid, rip, is_ready) == OnPollExitIn(scopes, open, pending, tid, rip, is_ready)

\* AsyncTracker::resync_from_stack
ResyncFromStack(tid, actual_tasks) ==
    LET sc1  == GetOrCreate(scopes, tid)
        kept == CommonLen(sc1[tid], actual_tasks, 0)
    IN  /\ scopes'  = [sc1 EXCEPT ![tid] = PollScopeResync(@, actual_tasks)]
        /\ UNCHANGED <<tasks, edges, callsites, clock, born, parented, interned>>
        /\ last'    = Call("resync", tid, None, None, FALSE, actual_tasks, None,
                           Some(sc1[tid]), None)
        /\ pending' = [pending EXCEPT ![tid] = None]
        /\ open'    = [open EXCEPT ![tid] =
                          SubSeq(@, 1, kept) \o [i \in 1..(Len(actual_tasks) - kept) |-> None]]
        /\ chain'   = ChainNext(last')

(* The target's memory and the breakpoints (kokia-target, kokia-core).       *)

\* INT3
INT3_OPCODE == 204

\* the code of the traced program: one instruction byte per address
Program == (10 :> 85) @@ (11 :> 144) @@ (12 :> 195)

\* an address outside every mapping of the target
Unmapped == 0

\* an address of a mapping the debugger can read and cannot write
ReadOnly == 20

\* the target's memory when the debugger attaches
TargetMemory == Program @@ (ReadOnly :> 144)

\* the addresses a breakpoint can be asked for
InstallAddresses == DOMAIN Program \cup {Unmapped, ReadOnly}

\* Memory::read_u8: None for Err
ReadU8(mem, address) == IF address \in DOMAIN mem THEN Some(mem[address]) ELSE None

\* Memory::write_u8: the memory after the write (None for Err)
WriteU8(mem, address, byte) ==
    IF address \in DOMAIN mem /\ address # ReadOnly
    THEN Some([mem EXCEPT ![address] = byte])
    ELSE None

\* SoftwareBreakpoint::new
SoftwareBreakpointNew(address) == [address |-> address, original_byte |-> 0, enabled |-> FALSE]

\* the outcome of an operation on a software breakpoint
SwResult(sw, mem, ok) == [sw |-> sw, mem |-> mem, ok |-> ok]

\* SoftwareBreakpoint::enable
SwEnable(sw, mem) ==
    IF sw.enabled THEN SwResult(sw, mem, TRUE)
    ELSE IF ReadU8(mem, sw.address) = None THEN SwResult(sw, mem, FALSE)
    ELSE IF WriteU8(mem, sw.address, INT3_OPCODE) = None THEN SwResult(sw, mem, FALSE)
    ELSE SwResult([sw EXCEPT !.original_byte = ReadU8(mem, sw.address)[1], !.enabled = TRUE],
                  WriteU8(mem, sw.address, INT3_OPCODE)[1], TRUE)

\* SoftwareBreakpoint::disable
SwDisable(sw, mem) ==
    IF ~sw.enabled THEN SwResult(sw, mem, TRUE)
    ELSE IF WriteU8(mem, sw.address, sw.original_byte) = None THEN SwResult(sw, mem, FALSE)
    ELSE SwResult([sw EXCEPT !.enabled = FALSE],
                  WriteU8(mem, sw.address, sw.original_byte)[1], TRUE)

\* the kinds of breakpoint
BreakpointTypes == {"User", "AsyncEntry", "AsyncExit", "Temporary"}

\* the outcome of an operation of the breakpoint manager
BmResult(bps, nid, mem, result) ==
    [breakpoints |-> bps, next_id |-> nid, mem |-> mem, result |-> result]

\* an install that hands out the smallest id the table does not hold
AddAndEnableReusingIds(bps, nid, mem, address, bp_type) ==
    LET id == CHOOSE k \in 1..nid : k \notin DOMAIN bps /\ \A j \in 1..(k - 1) : j \in DOMAIN bps
        bp == [id |-> id, address |-> address, enabled |-> TRUE, bp_type |-> bp_type]
        r  == SwEnable(SoftwareBreakpointNew(address), mem)
    IN  IF r.ok
        THEN BmResult(bps @@ (id :> [bp |-> bp, sw |-> r.sw]), nid + 1, r.mem, Some(id))
        ELSE BmResult(bps, nid + 1, r.mem, None)

\* an install that puts the record in the table before it enables it
AddAndEnableInsertFirst(bps, nid, mem, address, bp_type) ==
    LET id == nid
        bp == [id |-> id, address |-> address, enabled |-> TRUE, bp_type |-> bp_type]
        r  == SwEnable(SoftwareBreakpointNew(address), mem)
    IN  BmResult(bps @@ (id :> [bp |-> bp, sw |-> r.sw]), nid + 1, r.mem,
                 IF r.ok THEN Some(id) ELSE None)

\* BreakpointManager::add_and_enable_with_type: result is Some(id), None for Err
AddAndEnableWithType(bps, nid, mem, address, bp_type) ==
    LET id == nid
        bp == [id |-> id, address |-> address, enabled |-> TRUE, bp_type |-> bp_type]
        r  == SwEnable(SoftwareBreakpointNew(address), mem)
    IN  IF r.ok
        THEN BmResult(bps @@ (id :> [bp |-> bp, sw |-> r.sw]), nid + 1, r.mem, Some(id))
        ELSE BmResult(bps, nid + 1, r.mem, None)

\* BreakpointManager::remove_and_disable
RemoveAndDisable(bps, nid, mem, id) ==
    IF id \in DOMAIN bps
    THEN BmResult([k \in DOMAIN bps \ {id} |-> bps[k]], nid, SwDisable(bps[id].sw, mem).mem,
                  IF SwDisable(bps[id].sw, mem).ok THEN Some(id) ELSE None)
    ELSE BmResult(bps, nid, mem, Some(id))

\* BreakpointManager::find_by_address: the ids the search over the HashMap's
\* values can return (the first match in an unspecified order); none if empty
FindByAddress(bps, address) ==
    {id \in DOMAIN bps : bps[id].bp.address = address /\ bps[id].bp.enabled}

\* BreakpointManager::disable_temporarily
DisableTemporarily(bps, nid, mem, id) ==
    IF id \in DOMAIN bps /\ bps[id].bp.enabled
    THEN LET r == SwDisable(bps[id].sw, mem)
         IN  IF r.ok
             THEN BmResult([bps EXCEPT ![id] = [bp |-> [@.bp EXCEPT !.enabled = FALSE], sw |-> r.sw]],
                           nid, r.mem, Some(id))
             ELSE BmResult(bps, nid, mem, None)
    ELSE BmResult(bps, nid, mem, Some(id))

\* BreakpointManager::reenable
Reenable(bps, nid, mem, id) ==
    IF id \in DOMAIN bps /\ ~bps[id].bp.enabled
    THEN LET r == SwEnable(bps[id].sw, mem)
         IN  IF r.ok
             THEN BmResult([bps EXCEPT ![id] = [bp |-> [@.bp EXCEPT !.enabled = TRUE], sw |-> r.sw]],
                           nid, r.mem, Some(id))
             ELSE BmResult(bps, nid, mem, None)
    ELSE BmResult(bps, nid, mem, Some(id))

\* the opcode of ret
RET_OPCODE == 195

\* the process id of the target, which is also the id of its first thread
Pid == 1

\* the symbol of the async closure the target polls (the binary is not
\* position-independent: offsets are runtime addresses)
PollSymbol == [name |-> "poll", address |-> 10, size |-> 3]

\* the symbols of the binary
Symbols == {PollSymbol}

\* SymbolResolver::reverse_resolve: the nearest symbol at or below addr
ReverseResolve(addr) ==
    LET below == {sym \in Symbols : sym.address <= addr}
    IN  IF below = {} THEN None
        ELSE Some(CHOOSE sym \in below : \A other \in below : other.address <= sym.address)

\* Memory::read of size bytes: None for Err
ReadBytes(mem, addr, size) ==
    IF \A a \in addr..(addr + size - 1) : a \in DOMAIN mem
    THEN Some([a \in addr..(addr + size - 1) |-> mem[a]])
    ELSE None

\* disasm::find_ret_instructions: every instruction of the model is one byte
FindRetInstructions(code) == {a \in DOMAIN code : code[a] = RET_OPCODE}

\* for ret_addr in ret_addrs { add_and_enable_with_type(ret_addr, .., AsyncExit) },
\* in address order, a failed install skipped with a warning
RECURSIVE InstallExits(_, _)
InstallExits(r, ret_addrs) ==
    IF ret_addrs = {} THEN r
    ELSE LET ret_addr == CHOOSE a \in ret_addrs : \A b \in ret_addrs : a <= b
         IN  InstallExits(AddAndEnableWithType(r.breakpoints, r.next_id, r.mem, ret_addr,
                                               "AsyncExit"),
                          ret_addrs \ {ret_addr})

\* Debugger::set_async_breakpoint_by_symbol
SetAsyncBreakpointBySymbol(bps, nid, mem, symbol) ==
    LET entry_address == symbol.address
        entry == AddAndEnableWithType(bps, nid, mem, entry_address, "AsyncEntry")
        code  == ReadBytes(entry.mem, entry_address, symbol.size)
    IN  IF entry.result = None \/ symbol.size = 0 \/ code = None
        THEN entry
        ELSE [InstallExits(entry, FindRetInstructions(code[1])) EXCEPT !.result = entry.result]

\* Debugger::set_genfuture_poll_breakpoints: one breakpoint set per poll symbol
SetGenfuturePollBreakpoints(bps, nid, mem) ==
    SetAsyncBreakpointBySymbol(bps, nid, mem, PollSymbol)

\* an installation of exit breakpoints that does not look at the set of
\* functions done
EnsureAsyncExitBreakpointsUnguarded(bps, nid, mem, installed, entry_pc) ==
    LET symbol     == ReverseResolve(entry_pc)
        func_start == symbol[1].address
        func_bytes == ReadBytes(mem, func_start, symbol[1].size)
        same       == [bm |-> BmResult(bps, nid, mem, None), installed |-> installed]
    IN  IF symbol = None THEN same
        ELSE IF symbol[1].size = 0 THEN same
        ELSE IF func_bytes = None THEN same
        ELSE [bm |-> InstallExits(BmResult(bps, nid, mem, None),
                                  FindRetInstructions(func_bytes[1])),
              installed |-> installed \cup {func_start}]

\* Debugger::ensure_async_exit_breakpoints: the manager, the memory and the
\* set of functions done
EnsureAsyncExitBreakpoints(bps, nid, mem, installed, entry_pc) ==
    LET symbol     == ReverseResolve(entry_pc)
        func_start == symbol[1].address
        func_bytes == ReadBytes(mem, func_start, symbol[1].size)
        same       == [bm |-> BmResult(bps, nid, mem, None), installed |-> installed]
    IN  IF symbol = None THEN same
        ELSE IF func_start \in installed THEN same
        ELSE IF symbol[1].size = 0 THEN same
        ELSE IF func_bytes = None THEN same
        ELSE [bm |-> InstallExits(BmResult(bps, nid, mem, None),
                                  FindRetInstructions(func_bytes[1])),
              installed |-> installed \cup {func_start}]

\* the positions of the debugger: outside continue_and_wait, or inside it
\* with the breakpoint it steps over (None when the pc is on none)
Idle == [at |-> "idle", bp_id |-> None]
At(at, bp_id) == [at |-> at, bp_id |-> bp_id]

\* the address the target runs on to after the instruction at address: the
\* executor polls again after the poll function returns
NextPc(address) == IF address + 1 \in DOMAIN Program THEN address + 1 ELSE PollSymbol.address

\* Process::step: the target executes the byte at the pc, the trap if that is
\* what the memory holds
StepTarget(mem, address) ==
    IF address \notin DOMAIN mem
    THEN [pc |-> address, byte |-> -1, reason |-> "Signal"]    \* no instruction there
    ELSE IF mem[address] = INT3_OPCODE
    THEN [pc |-> address + 1, byte |-> INT3_OPCODE, reason |-> "Step"]
    ELSE [pc |-> NextPc(address), byte |-> mem[address], reason |-> "Step"]

\* Process::continue_and_wait: the target runs until it executes a trap
\* (SIGTRAP, the pc past the trap), leaves its code (another signal) or goes
\* round without meeting any (no stop: the wait does not return)
RECURSIVE RunToStop(_, _, _)
RunToStop(mem, address, fuel) ==
    IF address \notin DOMAIN mem THEN [reason |-> "Signal", pc |-> address]
    ELSE IF mem[address] = INT3_OPCODE THEN [reason |-> "Breakpoint", pc |-> address + 1]
    ELSE IF fuel = 0 THEN [reason |-> "Running", pc |-> address]
    ELSE RunToStop(mem, NextPc(address), fuel - 1)

\* the manager and the memory take the outcome r
Apply(r) ==
    /\ breakpoints' = r.breakpoints
    /\ next_id'     = r.next_id
    /\ memory'      = r.mem

-----------------------------------------------------------------------------
\* the histories of a thread's scope after resync_from_stack
ResyncOpen(op, sc, tid, actual_tasks) ==
    LET kept == CommonLen(GetOrCreate(sc, tid)[tid], actual_tasks, 0)
    IN  [op EXCEPT ![tid] =
            SubSeq(@, 1, kept) \o [i \in 1..(Len(actual_tasks) - kept) |-> None]]

\* Debugger::handle_async_exit.  stack_tasks is the result of
\* extract_async_tasks_from_stack: None for Err, Some(list) for Ok(list).  The
\* scope is resynced only when async_backtrace(tid) is empty; then the tracker's
\* on_poll_exit runs.
HandleAsyncExit(tid, trap_pc, is_ready, stack_tasks) ==
    LET scope_stack  == AsyncBacktrace(tid)
        needs_resync == Len(scope_stack) = 0
    IN  IF needs_resync /\ stack_tasks # None
        THEN OnPollExitIn([GetOrCreate(scopes, tid) EXCEPT
                               ![tid] = PollScopeResync(@, stack_tasks[1])],
                          ResyncOpen(open, scopes, tid, stack_tasks[1]),
                          [pending EXCEPT ![tid] = None],
                          tid, trap_pc, is_ready)
        ELSE OnPollExit(tid, trap_pc, is_ready)

\* Debugger::handle_async_entry at the entry breakpoint of trap_pc: the exit
\* breakpoints of the function are seen to, then the tracker is told of the
\* poll, tagged with the process id.  child_self, parent_task and
\* discriminant are what the registers, the frame scan and the generator hold.
HandleAsyncEntry(trap_pc, child_self, parent_task, discriminant) ==
    LET ensured       == EnsureAsyncExitBreakpoints(breakpoints, next_id, memory,
                                                    async_exit_bps_installed, trap_pc)
        tid           == Pid
        symbol        == ReverseResolve(trap_pc)
        function_name == IF symbol = None THEN None ELSE Some(symbol[1].name)
    IN  /\ Apply(ensured.bm)
        /\ async_exit_bps_installed' = ensured.installed
        /\ OnPollEntry(tid, child_self, trap_pc, parent_task, discriminant, function_name)

-----------------------------------------------------------------------------
(* The tracker as the debugger's entry and exit handlers drive it.          *)

\* Debugger::new (AsyncTracker::new, BreakpointManager::new) and a target
\* just loaded with the memory mem, whose handles the debugger may hold or not
DebuggerOn(mem) ==
    /\ tasks     = <<>>
    /\ edges     = <<>>
    /\ callsites = <<>>
    /\ scopes    = <<>>
    /\ clock     = 0
    /\ steps     = 0
    /\ last      = Call("new", 0, None, None, FALSE, <<>>, None, None, None)
    /\ pending   = [t \in Tids |-> None]
    /\ open      = [t \in Tids |-> <<>>]
    /\ born      = <<>>
    /\ parented  = {}
    /\ chain     = Some(0)
    /\ interned  = <<>>
    /\ breakpoints = <<>>
    /\ next_id   = 1
    /\ memory    = mem
    /\ removed   = {}
    /\ pc        = PollSymbol.address
    /\ async_exit_bps_installed = {}
    /\ phase     = Idle
    /\ hit       = Pid
    /\ ran       = None
    /\ stop      = None
    /\ entered   = {}

\* Debugger::new and the target that runs Program
DebuggerNew == DebuggerOn(TargetMemory)

\* no call is under study
NoCall == arg = None /\ ret = None

\* the debugger after Debugger::new and spawn: the target is stopped at its
\* first instruction
Init == DebuggerNew /\ process = Some(Pid) /\ NoCall

\* one more tracker call
Count == steps' = steps + 1

\* one more tracker call, while the run is short of max calls
Step(max) == steps < max /\ Count

\* In the traced program a generator is polled by one function: the rip and
\* the function name of an entry are those of the task's poll function.
PollRip(child)  == 100 + child
PollName(child) == Some("poll")
FunctionNames   == {"poll", "inner"}

(* Spec: any call on any thread, with any explicit parent. *)

PollEntry ==
    /\ Step(MaxSteps)
    /\ \E tid \in Tids, child \in TaskIds, parent_task \in OptionOf(TaskIds),
          discriminant \in OptionOf(Discriminants) :
           OnPollEntry(tid, child, PollRip(child), parent_task, discriminant, PollName(child))
    /\ UNCHANGED targetVars

PollExit ==
    /\ Step(MaxSteps)
    /\ \E tid \in Tids, is_ready \in BOOLEAN : OnPollExit(tid, 0, is_ready)
    /\ UNCHANGED targetVars

Resync ==
    /\ Step(MaxSteps)
    /\ \E tid \in Tids, actual_tasks \in SeqsUpTo(TaskIds, MaxActual) :
           ResyncFromStack(tid, actual_tasks)
    /\ UNCHANGED targetVars

Next == PollEntry \/ PollExit \/ Resync

Spec == Init /\ [][Next]_vars

(* SpecEdges: one thread, in longer runs: edges are created, completed and  *)
(* entered again.                                                           *)

EdgeEntry ==
    /\ Step(MaxEdgeSteps)
    /\ \E child \in TaskIds, parent_task \in OptionOf(TaskIds),
          discriminant \in OptionOf(Discriminants) :
           OnPollEntry(1, child, PollRip(child), parent_task, discriminant, PollName(child))
    /\ UNCHANGED targetVars

EdgeExit ==
    /\ Step(MaxEdgeSteps)
    /\ \E is_ready \in BOOLEAN : OnPollExit(1, 0, is_ready)
    /\ UNCHANGED targetVars

EdgeResync ==
    /\ Step(MaxEdgeSteps)
    /\ \E actual_tasks \in SeqsUpTo(TaskIds, MaxActual) : ResyncFromStack(1, actual_tasks)
    /\ UNCHANGED targetVars

NextEdges == EdgeEntry \/ EdgeExit \/ EdgeResync

SpecEdges == Init /\ [][NextEdges]_vars

(* SpecResync: one thread whose scope is built by entries and exits and     *)
(* replaced by task lists of up to MaxStack tasks.                          *)

StackEntry ==
    /\ Step(MaxSteps)
    /\ \E child \in TaskIds :
           OnPollEntry(1, child, PollRip(child), None, None, PollName(child))
    /\ UNCHANGED targetVars

StackExit ==
    /\ Step(MaxSteps)
    /\ \E is_ready \in BOOLEAN : OnPollExit(1, 0, is_ready)
    /\ UNCHANGED targetVars

StackResync ==
    /\ Step(MaxSteps)
    /\ \E actual_tasks \in SeqsUpTo(TaskIds, MaxStack) : ResyncFromStack(1, actual_tasks)
    /\ UNCHANGED targetVars

NextResync == StackEntry \/ StackExit \/ StackResync

SpecResync == Init /\ [][NextResync]_vars

(* SpecChain: the linear chain.  Thread 1 enters R, A and B in turn with no *)
(* explicit parent, whatever their discriminants, names and rips, and then  *)
(* B and A return.                                                          *)

ChainEntry ==
    /\ Count
    /\ chain # None /\ chain[1] < 3
    /\ \E discriminant \in OptionOf(Discriminants), function_name \in OptionOf(FunctionNames),
          rip \in {PollRip(t) : t \in TaskIds} :
           OnPollEntry(1, ChainTasks[chain[1] + 1], rip, None, discriminant, function_name)
    /\ UNCHANGED targetVars

ChainExit ==
    /\ Count
    /\ chain # None /\ chain[1] \in {3, 4}
    /\ \E is_ready \in BOOLEAN : OnPollExit(1, 0, is_ready)
    /\ UNCHANGED targetVars

NextChain == ChainEntry \/ ChainExit

SpecChain == Init /\ [][NextChain]_vars

(* SpecSiblings: a parent and two children.  Thread 1 enters R, then X (the *)
(* scope top R or the frame scan gives its parent), X returns Pending, and  *)
(* then Y is entered; discriminants and names are whatever the target holds.*)

\* the tasks R, X, Y
SiblingTasks == <<1, 2, 3>>

\* suspension-point indices the generators of the scenario can be at
SiblingDiscriminants == {0, 1}

SiblingEntry ==
    /\ Count
    /\ steps \in {0, 1, 3}
    /\ LET child == SiblingTasks[IF steps = 0 THEN 1 ELSE IF steps = 1 THEN 2 ELSE 3]
       IN  \E parent_task \in (IF steps = 0 THEN {None} ELSE {None, Some(SiblingTasks[1])}),
              discriminant \in OptionOf(SiblingDiscriminants),
              function_name \in OptionOf(FunctionNames) :
               OnPollEntry(1, child, PollRip(child), parent_task, discriminant, function_name)
    /\ UNCHANGED targetVars

SiblingExit ==
    /\ Count
    /\ steps = 2
    /\ OnPollExit(1, 0, FALSE)
    /\ UNCHANGED targetVars

NextSiblings == SiblingEntry \/ SiblingExit

SpecSiblings == Init /\ [][NextSiblings]_vars

(* SpecUnwind: a missed exit.  Thread 1 enters R, A and B in turn; an unwind *)
(* leaves B and A without passing their exit traps, so the next exit trap   *)
(* that is hit is R's, with R alone on the OS stack; further exit traps     *)
(* follow.                                                                  *)

\* exit traps handled after the unwind
MaxUnwindExits == 3

\* the OS stack found by extract_async_tasks_from_stack at an exit trap of
\* the scenario: the walk fails, or no async frame is left, or R's frame is
UnwindStacks == {None, Some(<<>>), Some(<<ChainTasks[1]>>)}

UnwindEntry ==
    /\ Count
    /\ steps < 3
    /\ \E discriminant \in OptionOf(SiblingDiscriminants) :
           OnPollEntry(1, ChainTasks[steps + 1], PollRip(ChainTasks[steps + 1]), None,
                       discriminant, PollName(ChainTasks[steps + 1]))
    /\ UNCHANGED targetVars

UnwindExit ==
    /\ Count
    /\ steps >= 3 /\ steps < 3 + MaxUnwindExits
    /\ \E is_ready \in BOOLEAN,
          stack_tasks \in (IF steps = 3 THEN {None, Some(<<ChainTasks[1]>>)} ELSE UnwindStacks) :
           HandleAsyncExit(1, 0, is_ready, stack_tasks)
    /\ UNCHANGED targetVars

NextUnwind == UnwindEntry \/ UnwindExit

SpecUnwind == Init /\ [][NextUnwind]_vars

(* SpecBp: the breakpoint manager alone: breakpoints are installed,         *)
(* removed, disabled and enabled again in any order.                        *)

\* breakpoints installed in one run
MaxInstalls == 3

\* Debugger::set_breakpoint / set_breakpoint_with_type
BpInstall ==
    /\ next_id <= MaxInstalls
    /\ \E address \in DOMAIN Program \cup {Unmapped, ReadOnly},
          bp_type \in {"User", "AsyncExit"} :
           Apply(AddAndEnableWithType(breakpoints, next_id, memory, address, bp_type))
    /\ UNCHANGED removed
    /\ UNCHANGED debuggerVars
    /\ UNCHANGED trackerVars

\* Debugger::remove_breakpoint
BpRemove ==
    /\ \E id \in DOMAIN breakpoints :
           /\ Apply(RemoveAndDisable(breakpoints, next_id, memory, id))
           /\ removed' = removed \cup {breakpoints[id].bp.address}
    /\ UNCHANGED debuggerVars
    /\ UNCHANGED trackerVars

\* the first half of a step over a breakpoint
BpDisable ==
    /\ \E id \in DOMAIN breakpoints :
           Apply(DisableTemporarily(breakpoints, next_id, memory, id))
    /\ UNCHANGED removed
    /\ UNCHANGED debuggerVars
    /\ UNCHANGED trackerVars

\* the second half of a step over a breakpoint
BpReenable ==
    /\ \E id \in DOMAIN breakpoints :
           Apply(Reenable(breakpoints, next_id, memory, id))
    /\ UNCHANGED removed
    /\ UNCHANGED debuggerVars
    /\ UNCHANGED trackerVars

NextBp == BpInstall \/ BpRemove \/ BpDisable \/ BpReenable

SpecBp == Init /\ [][NextBp]_vars

(* SpecDebug: the debugger on a stopped target whose executor polls one    *)
(* async closure again and again.  The user sets and removes breakpoints,   *)
(* enables async tracking and continues; continue_and_wait is followed      *)
(* through its positions: the breakpoint under the pc disabled, the single  *)
(* step, the breakpoint enabled again, the target resumed until it stops.   *)

\* breakpoint ids handed out in one run
MaxDebugIds == 2

\* tracker events in one run
MaxDebugSteps == 3

\* Debugger::set_breakpoint
DbgSetBreakpoint ==
    /\ phase = Idle /\ next_id <= MaxDebugIds
    /\ \E address \in DOMAIN Program :
           Apply(AddAndEnableWithType(breakpoints, next_id, memory, address, "User"))
    /\ UNCHANGED <<removed, debuggerVars>>
    /\ UNCHANGED trackerVars

\* Debugger::remove_breakpoint
DbgRemoveBreakpoint ==
    /\ phase = Idle
    /\ \E id \in DOMAIN breakpoints :
           /\ Apply(RemoveAndDisable(breakpoints, next_id, memory, id))
           /\ removed' = removed \cup {breakpoints[id].bp.address}
    /\ UNCHANGED debuggerVars
    /\ UNCHANGED trackerVars

\* Debugger::set_genfuture_poll_breakpoints: async tracking is enabled
DbgEnableAsync ==
    /\ phase = Idle /\ next_id <= MaxDebugIds
    /\ Apply(SetGenfuturePollBreakpoints(breakpoints, next_id, memory))
    /\ UNCHANGED <<removed, debuggerVars>>
    /\ UNCHANGED trackerVars

\* Debugger::continue_and_wait, to the single step: the breakpoint found at
\* the pc, if any, is disabled temporarily
ContinueBegin ==
    /\ phase = Idle /\ steps < MaxDebugSteps
    /\ LET found == FindByAddress(breakpoints, pc)
       IN  IF found = {}
           THEN /\ phase' = At("resume", None)
                /\ UNCHANGED <<breakpoints, next_id, memory>>
           ELSE \E bp_id \in found :
                   /\ Apply(DisableTemporarily(breakpoints, next_id, memory, bp_id))
                   /\ phase' = At("disabled", Some(bp_id))
    /\ UNCHANGED <<removed, pc, async_exit_bps_installed, hit, ran, stop, entered>>
    /\ UNCHANGED callVars
    /\ UNCHANGED trackerVars

\* Debugger::continue_and_wait: process.step()
ContinueStep ==
    /\ phase.at = "disabled"
    /\ pc' = StepTarget(memory, pc).pc
    /\ ran' = Some([pc |-> pc, byte |-> StepTarget(memory, pc).byte])
    /\ phase' = At("stepped", phase.bp_id)
    /\ UNCHANGED <<breakpoints, next_id, memory, removed, async_exit_bps_installed, hit,
                   stop, entered>>
    /\ UNCHANGED callVars
    /\ UNCHANGED trackerVars

\* Debugger::continue_and_wait: the breakpoint stepped over is enabled again
ContinueReenable ==
    /\ phase.at = "stepped"
    /\ Apply(Reenable(breakpoints, next_id, memory, phase.bp_id[1]))
    /\ phase' = At("resume", phase.bp_id)
    /\ UNCHANGED <<removed, pc, async_exit_bps_installed, hit, ran, stop, entered>>
    /\ UNCHANGED callVars
    /\ UNCHANGED trackerVars

\* Debugger::continue_and_wait, from process.continue_and_wait() on: the
\* target runs until it stops; at a trap the pc is set back onto it and an
\* async breakpoint found there is handled.  Any thread of the target may be
\* the one that ran into the trap.
ContinueResume ==
    /\ phase.at = "resume"
    /\ LET stopped == RunToStop(memory, pc, Cardinality(DOMAIN Program))
           adjusted_pc == stopped.pc - 1
           found == FindByAddress(breakpoints, adjusted_pc)
           Report(bp_id) == stop' = Some([reason |-> stopped.reason, pc |-> pc',
                                          bp_id |-> bp_id, over |-> phase.bp_id])
           Untracked == /\ UNCHANGED <<breakpoints, next_id, memory,
                                       async_exit_bps_installed, entered>>
                        /\ UNCHANGED trackerVars
       IN  /\ stopped.reason # "Running"
           /\ IF stopped.reason = "Breakpoint"
              THEN /\ pc' = adjusted_pc
                   /\ \E thread \in Tids : hit' = thread
                   /\ IF found = {}
                      THEN Report(None) /\ Untracked
                      ELSE \E bp_id \in found :
                             /\ Report(Some(bp_id))
                             /\ IF breakpoints[bp_id].bp.bp_type = "AsyncEntry"
                                THEN /\ Count
                                     /\ \E child_self \in TaskIds :
                                            HandleAsyncEntry(adjusted_pc, child_self,
                                                             None, None)
                                     /\ entered' = entered \cup
                                            {sym.address : sym \in
                                                {x \in Symbols : Some(x) = ReverseResolve(adjusted_pc)}}
                                ELSE IF breakpoints[bp_id].bp.bp_type = "AsyncExit"
                                THEN /\ Count
                                     /\ \E is_ready \in BOOLEAN :   \* the stack walk fails
                                            HandleAsyncExit(Pid, adjusted_pc, is_ready,
                                                            None)
                                     /\ UNCHANGED <<breakpoints, next_id, memory,
                                                    async_exit_bps_installed, entered>>
                                ELSE Untracked
              ELSE /\ pc' = stopped.pc
                   /\ Report(None)
                   /\ UNCHANGED hit
                   /\ Untracked
    /\ phase' = Idle
    /\ UNCHANGED <<removed, ran>>
    /\ UNCHANGED callVars

NextDebug ==
    \/ DbgSetBreakpoint \/ DbgRemoveBreakpoint \/ DbgEnableAsync
    \/ ContinueBegin \/ ContinueStep \/ ContinueReenable \/ ContinueResume

SpecDebug == Init /\ [][NextDebug]_vars

(* SpecStep: the user sets and removes breakpoints and single-steps the     *)
(* stopped target.                                                          *)

\* Debugger::step: the breakpoint found at the pc, if any, is disabled for
\* the single step and enabled again; if a breakpoint is then found at the
\* new pc - 1, the pc is set to it and Breakpoint is reported
DbgStep ==
    /\ phase = Idle /\ process # None
    /\ LET current_pc == pc
           at_pc      == FindByAddress(breakpoints, current_pc)
           Finish(bm, stepped, over) ==
               LET new_pc == stepped.pc
                   hit_bp == FindByAddress(bm.breakpoints, new_pc - 1) # {}
               IN  /\ Apply(bm)
                   /\ pc'   = IF hit_bp THEN new_pc - 1 ELSE new_pc
                   /\ ran'  = Some([pc |-> current_pc, byte |-> stepped.byte])
                   /\ stop' = Some([reason |-> IF hit_bp THEN "Breakpoint" ELSE stepped.reason,
                                    pc |-> pc', bp_id |-> None, over |-> over])
                   /\ ret'  = Some(Ok(stop'[1].reason))
       IN  IF at_pc # {}
           THEN \E bp_id \in at_pc :
                   LET disabled == DisableTemporarily(breakpoints, next_id, memory, bp_id)
                       stepped  == StepTarget(disabled.mem, current_pc)
                       enabled  == Reenable(disabled.breakpoints, disabled.next_id,
                                            disabled.mem, bp_id)
                   IN  Finish(enabled, stepped, Some(bp_id))
           ELSE Finish(BmResult(breakpoints, next_id, memory, None),
                       StepTarget(memory, current_pc), None)
    /\ arg' = Some([op |-> "step", value |-> 0])
    /\ UNCHANGED <<process, removed, async_exit_bps_installed, phase, hit, entered>>
    /\ UNCHANGED trackerVars

NextStep == DbgSetBreakpoint \/ DbgRemoveBreakpoint \/ DbgStep

SpecStep == Init /\ [][NextStep]_vars

(* SpecSession: a session from Debugger::new on.  Calls are made on the     *)
(* debugger while it holds no target; spawn gives it one, and the session   *)
(* goes on as in SpecDebug.                                                 *)

\* errors::ERR_NOT_ATTACHED
ERR_NOT_ATTACHED == "Not attached to a process"

\* Debugger::require_registers and require_memory, and the same test as
\* it is written inline on self.process and self.memory
RequireHandle(handle) == IF handle = None THEN Err(ERR_NOT_ATTACHED) ELSE Ok(handle[1])

\* Debugger::continue_execution: the target is resumed if there is one, and
\* the call returns Ok(()) in both cases
ContinueExecution(proc) == IF proc # None THEN Ok(<<>>) ELSE Ok(<<>>)

\* the calls that need the target, each with the values of its argument
TargetCalls ==
    [op : {"continue_execution", "continue_and_wait", "step", "backtrace", "get_pc"},
     value : {0}]
    \cup [op : {"set_breakpoint"}, value : InstallAddresses]
    \cup [op : {"remove_breakpoint"}, value : 1..MaxDebugIds]

\* what a call returns up to the first use it makes of the target:
\* continue_execution tests self.process itself, every other call asks for
\* its handles first
CallBeforeTarget(op, proc) ==
    IF op = "continue_execution" THEN ContinueExecution(proc) ELSE RequireHandle(proc)

\* a call on the debugger that holds no target: it returns before it
\* reaches the breakpoint manager, the tracker or the target
UnattachedCall ==
    /\ process = None
    /\ \E call \in TargetCalls :
          /\ arg' = Some(call)
          /\ ret' = Some(CallBeforeTarget(call.op, process))
    /\ UNCHANGED <<process, breakpoints, next_id, memory, removed, pc,
                   async_exit_bps_installed, phase, hit, ran, stop, entered>>
    /\ UNCHANGED trackerVars

\* Debugger::spawn: the handles of the process, its memory and its registers
Spawn ==
    /\ process = None
    /\ process' = Some(Pid)
    /\ arg' = None
    /\ ret' = None
    /\ UNCHANGED <<breakpoints, next_id, memory, removed, pc, async_exit_bps_installed,
                   phase, hit, ran, stop, entered>>
    /\ UNCHANGED trackerVars

\* Debugger::new
InitSession == DebuggerNew /\ process = None /\ NoCall

NextSession == UnattachedCall \/ Spawn \/ (process # None /\ NextDebug)

SpecSession == InitSession /\ [][NextSession]_vars

(* SpecPie: the conversions between file offsets and runtime addresses, on  *)
(* images loaded at every base.  Addresses are AddressBits wide.            *)

\* the width of an address (u64 in the code)
AddressBits == 5

\* the number of addresses
AddressSpace == 2 ^ AddressBits

\* u64::saturating_sub
SaturatingSub(a, b) == IF a >= b THEN a - b ELSE 0

\* a + b on u64: the sum, or on overflow what the build makes of it: the
\* wrapped sum (release) or a panic (debug)
CheckedAdd(a, b) ==
    IF a + b < AddressSpace THEN {Ok(a + b)}
    ELSE {Ok((a + b) % AddressSpace), Err("attempt to add with overflow")}

\* the lines of /proc/pid/maps of a loaded image: the start of the mapping,
\* its offset in the file, whether it is executable
MappingLines == [start : {8, 12, 20}, offset : {0, 4}, executable : BOOLEAN]

\* Memory::get_base_address: start - offset of the first executable line
GetBaseAddress(maps) ==
    LET exec == {i \in 1..Len(maps) : maps[i].executable}
    IN  IF exec = {}
        THEN Err("Could not find executable segment in memory mappings")
        ELSE LET first == CHOOSE i \in exec : \A j \in exec : i <= j
             IN  Ok(maps[first].start - maps[first].offset)

\* Debugger::runtime_addr_to_offset that subtracts nothing
RuntimeAddrToOffsetIdentity(is_pie, maps, addr) == Ok(addr)

\* Debugger::runtime_addr_to_offset
RuntimeAddrToOffset(is_pie, maps, addr) ==
    IF is_pie
    THEN LET base == GetBaseAddress(maps)
         IN  IF base.ok THEN Ok(SaturatingSub(addr, base.value)) ELSE base
    ELSE Ok(addr)

\* Debugger::offset_to_runtime_addr: the outcomes of the call
OffsetToRuntimeAddr(is_pie, maps, offset) ==
    IF is_pie
    THEN LET base == GetBaseAddress(maps)
         IN  IF base.ok THEN CheckedAdd(base.value, offset) ELSE {base}
    ELSE {Ok(offset)}

\* the images and the offsets of the study: the binary is PIE or not, the
\* maps file has up to two lines, the offset is any address
PieInputs ==
    [is_pie : BOOLEAN, maps : SeqsUpTo(MappingLines, 2), offset : 0..(AddressSpace - 1)]

\* offset_to_runtime_addr, then runtime_addr_to_offset of what it returned
PieRoundTrip ==
    /\ arg # None /\ ret = None
    /\ \E runtime \in OffsetToRuntimeAddr(arg[1].is_pie, arg[1].maps, arg[1].offset) :
          ret' = Some([runtime |-> runtime,
                       file    |-> IF runtime.ok
                                   THEN RuntimeAddrToOffset(arg[1].is_pie, arg[1].maps,
                                                            runtime.value)
                                   ELSE runtime])
    /\ UNCHANGED <<process, arg, breakpoints, next_id, memory, removed, pc,
                   async_exit_bps_installed, phase, hit, ran, stop, entered>>
    /\ UNCHANGED trackerVars

InitPie ==
    /\ DebuggerNew /\ process = Some(Pid)
    /\ arg \in {Some(i) : i \in PieInputs}
    /\ ret = None

NextPie == PieRoundTrip

SpecPie == InitPie /\ [][NextPie]_vars

(* SpecSymbols: reverse_resolve on symbol tables of up to MaxSymbols         *)
(* symbols, sorted by address as SymbolResolver::new leaves them.           *)

\* symbols in a table
MaxSymbols == 2

\* the symbols a table can hold: sized and unsized, some at the same address
SymbolRecords == [name : {"f", "g"}, address : {2, 5, 8}, size : {0, 2}]

\* SymbolResolver::new: symbols_by_address is sorted by address
SymbolTables ==
    {t \in SeqsUpTo(SymbolRecords, MaxSymbols) :
        \A i \in 1..(Len(t) - 1) : t[i].address <= t[i + 1].address}

\* the offsets looked up
LookupOffsets == 0..10

\* SymbolResolver::reverse_resolve: the outcomes of the call.  The binary
\* search returns Ok with the index of any symbol at addr, or Err with the
\* number of symbols below addr.
SymbolResolverReverseResolve(symbols_by_address, addr) ==
    LET at  == {i \in 1..Len(symbols_by_address) : symbols_by_address[i].address = addr}
        idx == Cardinality({i \in 1..Len(symbols_by_address) :
                               symbols_by_address[i].address < addr})
    IN  IF at # {} THEN {Some(symbols_by_address[i]) : i \in at}
        ELSE IF idx > 0
        THEN LET sym == symbols_by_address[idx]
             IN  IF sym.size > 0 /\ addr < sym.address + sym.size THEN {Some(sym)}
                 ELSE IF addr >= sym.address THEN {Some(sym)}
                 ELSE {None}
        ELSE {None}

\* reverse_resolve is called on the table and the offset drawn
SymbolLookup ==
    /\ arg # None /\ ret = None
    /\ \E found \in SymbolResolverReverseResolve(arg[1].symbols, arg[1].addr) :
          ret' = Some(found)
    /\ UNCHANGED <<process, arg, breakpoints, next_id, memory, removed, pc,
                   async_exit_bps_installed, phase, hit, ran, stop, entered>>
    /\ UNCHANGED trackerVars

InitSymbols ==
    /\ DebuggerNew /\ process = Some(Pid)
    /\ arg \in {Some(i) : i \in [symbols : SymbolTables, addr : LookupOffsets]}
    /\ ret = None

NextSymbols == SymbolLookup

SpecSymbols == InitSymbols /\ [][NextSymbols]_vars

(* SpecLines: find_first_line_in_range on the line programs of a binary's   *)
(* compilation units.                                                       *)

\* rows in a line program
MaxRows == 2

\* the rows of a line program: line 0 stands for a row without a line
LineRows == [address : {2, 3, 4}, line : {0, 7}, is_stmt : BOOLEAN, end_sequence : BOOLEAN]

\* the line programs of a unit
LinePrograms == SeqsUpTo(LineRows, MaxRows)

\* the units of the binary, each with its line program or with none: the
\* unit under study, alone or after a unit without rows
UnitLists ==
    {<<>>} \cup {<<Some(p)>> : p \in LinePrograms}
           \cup {<<before, Some(p)>> : before \in {None, Some(<<>>)}, p \in LinePrograms}

\* find_first_line_in_range, the loop over the rows of one line program:
\* the address of the first row at or after index i that lies in
\* [start_addr, end_addr), is no end_sequence, has a line above 0, is_stmt
\* and is not at start_addr; None if there is no such row
RECURSIVE ScanRows(_, _, _, _)
ScanRows(rows, i, start_addr, end_addr) ==
    IF i > Len(rows) THEN None
    ELSE LET row  == rows[i]
             addr == row.address
         IN  IF /\ addr >= start_addr /\ addr < end_addr
                /\ ~row.end_sequence
                /\ row.line > 0 /\ row.is_stmt
                /\ addr # start_addr
             THEN Some(addr)
             ELSE ScanRows(rows, i + 1, start_addr, end_addr)

\* LineInfoProvider::find_first_line_in_range: the first unit that has a
\* line program decides: the row found in it, or start_addr if none is found
RECURSIVE FindFirstLineInRange(_, _, _, _)
FindFirstLineInRange(units, u, start_addr, end_addr) ==
    IF u > Len(units) THEN Ok(None)
    ELSE IF units[u] # None
    THEN LET first_line_addr == ScanRows(units[u][1], 1, start_addr, end_addr)
         IN  IF first_line_addr = None THEN Ok(Some(start_addr)) ELSE Ok(first_line_addr)
    ELSE FindFirstLineInRange(units, u + 1, start_addr, end_addr)

\* find_first_line_in_range is called on the units and the range drawn
LineLookup ==
    /\ arg # None /\ ret = None
    /\ ret' = Some(FindFirstLineInRange(arg[1].units, 1, arg[1].lo, arg[1].hi))
    /\ UNCHANGED <<process, arg, breakpoints, next_id, memory, removed, pc,
                   async_exit_bps_installed, phase, hit, ran, stop, entered>>
    /\ UNCHANGED trackerVars

\* the ranges are those of a symbol at address 2
InitLines ==
    /\ DebuggerNew /\ process = Some(Pid)
    /\ arg \in {Some(i) : i \in [units : UnitLists, lo : {2}, hi : {4, 5}]}
    /\ ret = None

NextLines == LineLookup

SpecLines == InitLines /\ [][NextLines]_vars

(* SpecDetector: is_user_async_closure on symbol names.  A name is the      *)
(* string of its path segments joined by "::"; the strings of the model     *)
(* are sequences of tokens, a segment or "::" each, and the patterns of     *)
(* the detector are strings of the same kind.                               *)

\* segments in a name
MaxSegments == 3

\* the segments of the names under study
Segments == {"my_app", "tokio", "parking_lot", "runtime", "fmt", "drop_in_place",
             "{{closure}}", "{{constant}}"}

\* the name of a path: its segments joined by "::"
RECURSIVE PathName(_)
PathName(segs) ==
    IF Len(segs) <= 1 THEN segs
    ELSE PathName(SubSeq(segs, 1, Len(segs) - 1)) \o <<"::", segs[Len(segs)]>>

\* a starts_with that finds the prefix anywhere in the string
StartsWithAnywhere(string, prefix) ==
    \E i \in 0..(Len(string) - Len(prefix)) : SubSeq(string, i + 1, i + Len(prefix)) = prefix

\* str::starts_with
StartsWith(string, prefix) ==
    Len(prefix) <= Len(string) /\ SubSeq(string, 1, Len(prefix)) = prefix

\* str::contains
Contains(string, pattern) ==
    \E i \in 0..(Len(string) - Len(pattern)) : SubSeq(string, i + 1, i + Len(pattern)) = pattern

\* AsyncDetector::new: excluded_prefixes
excluded_prefixes ==
    {<<"tokio", "::">>, <<"async_std", "::">>, <<"futures", "::">>, <<"mio", "::">>,
     <<"std", "::">>, <<"core", "::">>, <<"alloc", "::">>,
     <<"parking_lot">>, <<"hashbrown", "::">>, <<"tracing", "::">>, <<"serde", "::">>,
     <<"log", "::">>, <<"bytes", "::">>, <<"hyper", "::">>, <<"h2", "::">>}

\* AsyncDetector::new: excluded_contains
excluded_contains ==
    {<<"{{constant}}">>,
     <<"::", "runtime", "::">>, <<"::", "executor", "::">>, <<"::", "task", "::">>,
     <<"drop_in_place">>, <<"::", "fmt", "::">>, <<"::", "clone", "::">>,
     <<"::", "drop", "::">>}

\* AsyncDetector::is_user_async_closure
IsUserAsyncClosure(name) ==
    IF ~Contains(name, <<"{{closure}}">>) THEN FALSE
    ELSE IF \E prefix \in excluded_prefixes : StartsWith(name, prefix) THEN FALSE
    ELSE IF \E pattern \in excluded_contains : Contains(name, pattern) THEN FALSE
    ELSE TRUE

\* is_user_async_closure is called on the name of the path drawn
Detect ==
    /\ arg # None /\ ret = None
    /\ ret' = Some(IsUserAsyncClosure(PathName(arg[1])))
    /\ UNCHANGED <<process, arg, breakpoints, next_id, memory, removed, pc,
                   async_exit_bps_installed, phase, hit, ran, stop, entered>>
    /\ UNCHANGED trackerVars

InitDetector ==
    /\ DebuggerNew /\ process = Some(Pid)
    /\ arg \in {Some(segs) : segs \in SeqsUpTo(Segments, MaxSegments)}
    /\ ret = None

NextDetector == Detect

SpecDetector == InitDetector /\ [][NextDetector]_vars

(* SpecWalk: the frame-pointer walk of backtrace on every content of the    *)
(* target's stack, one iteration of its loop per step.                      *)

\* MAX_FRAMES of Debugger::backtrace
MAX_FRAMES == 100

\* the lowest address backtrace takes for a frame pointer or a return address
LowestAddress == 4096

\* the addresses of the frames on the mapped stack
FrameAddresses == {4096, 4112}

\* the values a saved frame pointer or the rbp register can hold: zero, a
\* small number, a frame of the stack, an address outside every mapping
FramePointers == {0, 16} \cup FrameAddresses \cup {8192}

\* the saved return addresses: zero or an address of the code
ReturnAddresses == {0, 4200}

\* the contents of the stack: per frame the saved rbp at [rbp] and the
\* return address at [rbp + 8]
Stacks == [FrameAddresses -> [prev_rbp : FramePointers \ {16}, return_address : ReturnAddresses]]

\* Memory::is_mapped
IsMapped(stack, addr) == addr \in DOMAIN stack

\* Debugger::backtrace up to the loop: frame 0 holds the registers
BacktraceBegin ==
    /\ arg # None /\ ret = None
    /\ ret' = Some([frames       |-> <<[pc |-> pc, rbp |-> arg[1].rbp]>>,
                    rbp          |-> arg[1].rbp,
                    frame_number |-> 1,
                    done         |-> FALSE])
    /\ UNCHANGED <<process, arg, breakpoints, next_id, memory, removed, pc,
                   async_exit_bps_installed, phase, hit, ran, stop, entered>>
    /\ UNCHANGED trackerVars

\* Debugger::backtrace: the test of the while loop and one iteration of its body
BacktraceLoop ==
    /\ arg # None /\ ret # None /\ ~ret[1].done
    /\ LET walk        == ret[1]
           stack       == arg[1].stack
           current_rbp == arg[1].rbp
           rbp         == walk.rbp
           Break       == ret' = Some([walk EXCEPT !.done = TRUE])
       IN  IF ~(walk.frame_number < MAX_FRAMES) THEN Break
           ELSE IF rbp = 0 \/ rbp < LowestAddress THEN Break
           ELSE IF ~IsMapped(stack, rbp) THEN Break
           ELSE LET prev_rbp       == stack[rbp].prev_rbp
                    return_address == stack[rbp].return_address
                IN  IF return_address = 0 \/ return_address < LowestAddress THEN Break
                    ELSE ret' = Some([frames       |-> Append(walk.frames,
                                                              [pc  |-> return_address,
                                                               rbp |-> prev_rbp]),
                                      rbp          |-> prev_rbp,
                                      frame_number |-> walk.frame_number + 1,
                                      done         |-> prev_rbp <= current_rbp])
    /\ UNCHANGED <<process, arg, breakpoints, next_id, memory, removed, pc,
                   async_exit_bps_installed, phase, hit, ran, stop, entered>>
    /\ UNCHANGED trackerVars

InitWalk ==
    /\ DebuggerNew /\ process = Some(Pid)
    /\ arg \in {Some(i) : i \in [stack : Stacks, rbp : FramePointers]}
    /\ ret = None

NextWalk == BacktraceBegin \/ BacktraceLoop

\* backtrace runs on: no iteration is put off for ever
SpecWalk == InitWalk /\ [][NextWalk]_vars /\ WF_vars(NextWalk)

(* SpecOrient: exit traps on a thread whose OS stack holds any frames.  The *)
(* scope is built by entries, and an exit trap found with the scope empty   *)
(* resyncs it from the frames of the backtrace.                             *)

\* tracker events in one run
MaxOrientSteps == 2

\* frames in a backtrace
MaxStackFrames == 2

\* the frames of a backtrace: the demangled name of the function, if the
\* symbol was found, and the self pointer found in the frame, if any
StackFrames ==
    [function_name : {None, Some(PathName(<<"my_app", "{{closure}}">>)),
                      Some(PathName(<<"my_app", "main">>))},
     saved_rdi : OptionOf(TaskIds)]

\* Debugger::extract_async_tasks_from_stack on the result of backtrace (None
\* for Err): the self pointers of the closure frames, frame 0 first
RECURSIVE ExtractAsyncTasksFromStack(_)
ExtractAsyncTasksFromStack(frames) ==
    IF frames = None THEN None
    ELSE IF frames[1] = <<>> THEN Some(<<>>)
    ELSE LET frame == Head(frames[1])
             rest  == ExtractAsyncTasksFromStack(Some(Tail(frames[1])))[1]
         IN  IF /\ frame.function_name # None
                /\ Contains(frame.function_name[1], <<"{{closure}}">>)
                /\ frame.saved_rdi # None
             THEN Some(<<frame.saved_rdi[1]>> \o rest)
             ELSE Some(rest)

\* Debugger::handle_async_entry, as far as the tracker goes
OrientEntry ==
    /\ Step(MaxOrientSteps)
    /\ \E child \in TaskIds :
           OnPollEntry(Pid, child, PollRip(child), None, None, PollName(child))
    /\ arg' = None
    /\ UNCHANGED <<process, ret, breakpoints, next_id, memory, removed, pc,
                   async_exit_bps_installed, phase, hit, ran, stop, entered>>

\* Debugger::handle_async_exit with the frames backtrace returns at the trap
OrientExit ==
    /\ Step(MaxOrientSteps)
    /\ \E is_ready \in BOOLEAN, frames \in OptionOf(SeqsUpTo(StackFrames, MaxStackFrames)) :
           /\ HandleAsyncExit(Pid, pc, is_ready, ExtractAsyncTasksFromStack(frames))
           /\ arg' = Some([op |-> "handle_async_exit", value |-> frames])
    /\ UNCHANGED <<process, ret, breakpoints, next_id, memory, removed, pc,
                   async_exit_bps_installed, phase, hit, ran, stop, entered>>

NextOrient == OrientEntry \/ OrientExit

SpecOrient == Init /\ [][NextOrient]_vars

(* SpecPolls: the session of SpecDebug in which the user also single-steps  *)
(* the target through the polls of the async closure.                       *)

NextPolls == NextDebug \/ DbgStep

SpecPolls == Init /\ [][NextPolls]_vars

(* SpecFaults: the session of SpecPolls on a target whose single step can   *)
(* fail: ptrace or waitpid returns an error, or the target exits during the *)
(* step and its memory is gone.  The session is followed up to the first    *)
(* call that returns an error.                                              *)

\* the ways Process::step does not complete
StepFaults == {"Err", "Exited"}

\* Process::step when it does not complete: what it returns and the memory
\* of the target afterwards
ProcessStepFault(mem, fault) ==
    IF fault = "Err"
    THEN [result |-> Err("ESRCH"), mem |-> mem]
    ELSE [result |-> Ok("Exited"), mem |-> <<>>]

\* Debugger::step when process.step() does not complete: an error of the
\* single step or of the write that enables the breakpoint again returns at
\* once (the ? operator), and so does the read of the pc of a target that
\* is gone
DbgStepFault ==
    /\ phase = Idle /\ process # None
    /\ \E fault \in StepFaults :
          LET at_pc == FindByAddress(breakpoints, pc)
              Return(bm, mem, result) ==
                  /\ Apply([bm EXCEPT !.mem = mem])
                  /\ ret' = Some(result)
          IN  IF at_pc # {}
              THEN \E bp_id \in at_pc :
                      LET disabled == DisableTemporarily(breakpoints, next_id, memory, bp_id)
                          stepped  == ProcessStepFault(disabled.mem, fault)
                          enabled  == Reenable(disabled.breakpoints, disabled.next_id,
                                               stepped.mem, bp_id)
                      IN  IF disabled.result = None
                          THEN Return(disabled, disabled.mem, Err("write"))
                          ELSE IF ~stepped.result.ok
                          THEN Return(disabled, stepped.mem, stepped.result)
                          ELSE IF enabled.result = None
                          THEN Return(enabled, stepped.mem, Err("write"))
                          ELSE Return(enabled, enabled.mem, Err("ESRCH"))
              ELSE LET stepped == ProcessStepFault(memory, fault)
                   IN  Return(BmResult(breakpoints, next_id, memory, None), stepped.mem,
                              IF stepped.result.ok THEN Err("ESRCH") ELSE stepped.result)
    /\ arg' = Some([op |-> "step", value |-> 0])
    /\ UNCHANGED <<process, removed, pc, async_exit_bps_installed, phase, hit, ran, stop,
                   entered>>
    /\ UNCHANGED trackerVars

\* Debugger::continue_and_wait when process.step() does not complete: an
\* error returns at once; the result of a step in which the target exited
\* is dropped, and the write that enables the breakpoint again fails
ContinueStepFault ==
    /\ phase.at = "disabled"
    /\ \E fault \in StepFaults :
          LET stepped == ProcessStepFault(memory, fault)
              enabled == Reenable(breakpoints, next_id, stepped.mem, phase.bp_id[1])
          IN  IF ~stepped.result.ok
              THEN /\ UNCHANGED <<breakpoints, next_id, memory>>
                   /\ ret' = Some(stepped.result)
                   /\ phase' = Idle
              ELSE /\ Apply([enabled EXCEPT !.mem = IF enabled.result = None
                                                    THEN stepped.mem ELSE @])
                   /\ ret' = IF enabled.result = None THEN Some(Err("write")) ELSE ret
                   /\ phase' = IF enabled.result = None THEN Idle
                                                        ELSE At("resume", phase.bp_id)
    /\ arg' = Some([op |-> "continue_and_wait", value |-> 0])
    /\ UNCHANGED <<process, removed, pc, async_exit_bps_installed, hit, ran, stop, entered>>
    /\ UNCHANGED trackerVars

\* no call has returned an error so far
NoFault == IF ret = None THEN TRUE ELSE ret[1].ok

NextFaults ==
    \/ NoFault /\ DbgSetBreakpoint
    \/ NoFault /\ DbgRemoveBreakpoint
    \/ NoFault /\ DbgEnableAsync
    \/ NoFault /\ ContinueBegin
    \/ NoFault /\ ContinueStep
    \/ NoFault /\ ContinueReenable
    \/ NoFault /\ ContinueResume
    \/ NoFault /\ DbgStep
    \/ NoFault /\ DbgStepFault
    \/ NoFault /\ ContinueStepFault

SpecFaults == Init /\ [][NextFaults]_vars

(* SpecExits: the session of SpecDebug on two programs: the async closure   *)
(* that returns through its ret, and one that ends in a jump back to its    *)
(* start and holds no ret instruction.                                      *)

\* the memory of a target whose async closure holds no ret: a nop stands
\* where the ret was, and the closure runs on from its last byte to its first
NoRetMemory == [TargetMemory EXCEPT ![PollSymbol.address + PollSymbol.size - 1] = 144]

InitExits ==
    /\ \E mem \in {TargetMemory, NoRetMemory} : DebuggerOn(mem)
    /\ process = Some(Pid) /\ NoCall

SpecExits == InitExits /\ [][NextDebug]_vars

(* SpecSlide: async tracking on images loaded at a slide.  The symbol of    *)
(* the async closure is in file offsets; the binary is position-independent *)
(* and loaded at a base, or it is not and its offsets are its addresses.    *)

\* AsyncEntry hits in one run
MaxSlideEntries == 2

\* the bases a position-independent image is loaded at
SlideBases == {4, 8, 16}

\* the images: position-independent or not, the maps file of the process,
\* the bytes of the async closure (nop or ret each)
SlideImages ==
    [is_pie : BOOLEAN,
     maps   : {<<[start |-> base, offset |-> 0, executable |-> TRUE]>> : base \in SlideBases},
     code   : [0..(PollSymbol.size - 1) -> {144, RET_OPCODE}]]

\* the memory of the process that runs image: the closure's bytes at its
\* runtime addresses, which are all that is mapped
LoadedMemory(image) ==
    LET base == IF image.is_pie THEN image.maps[1].start - image.maps[1].offset ELSE 0
    IN  [a \in {base + PollSymbol.address + i : i \in DOMAIN image.code}
            |-> image.code[a - base - PollSymbol.address]]

\* Debugger::set_async_breakpoint_by_symbol: the entry breakpoint at the
\* runtime address of the symbol, the code read there, the rets found in
\* file offsets and each converted to its runtime address
SetAsyncBreakpointBySymbolAt(bps, nid, mem, symbol, is_pie, maps) ==
    LET converted     == CHOOSE r \in OffsetToRuntimeAddr(is_pie, maps, symbol.address) : r.ok
        entry_address == converted.value
        entry == AddAndEnableWithType(bps, nid, mem, entry_address, "AsyncEntry")
        code  == ReadBytes(entry.mem, entry_address, symbol.size)
        ret_addrs == {symbol.address + (a - entry_address) :
                          a \in FindRetInstructions(code[1])}
        actual_ret_addrs ==
            {(CHOOSE r \in OffsetToRuntimeAddr(is_pie, maps, ret_addr) : r.ok).value :
                 ret_addr \in ret_addrs}
    IN  IF entry.result = None \/ symbol.size = 0 \/ code = None
        THEN entry
        ELSE [InstallExits(entry, actual_ret_addrs) EXCEPT !.result = entry.result]

\* Debugger::ensure_async_exit_breakpoints: the symbol is looked up at the
\* file offset of entry_pc; func_start is the address of the symbol, the
\* function's bytes are read at func_start, and the rets found are handed to
\* set_breakpoint_with_type as they are.  read_at is the address of the read.
EnsureAsyncExitBreakpointsAt(bps, nid, mem, installed, entry_pc, is_pie, maps) ==
    LET lookup_addr == RuntimeAddrToOffset(is_pie, maps, entry_pc)
        symbol      == IF lookup_addr.ok THEN ReverseResolve(lookup_addr.value) ELSE None
        func_start  == symbol[1].address
        func_bytes  == ReadBytes(mem, func_start, symbol[1].size)
        Same(read)  == [bm |-> BmResult(bps, nid, mem, None), installed |-> installed,
                        read_at |-> read]
    IN  IF symbol = None THEN Same(None)
        ELSE IF func_start \in installed THEN Same(None)
        ELSE IF symbol[1].size = 0 THEN Same(None)
        ELSE IF func_bytes = None THEN Same(Some(func_start))
        ELSE [bm |-> InstallExits(BmResult(bps, nid, mem, None),
                                  FindRetInstructions(func_bytes[1])),
              installed |-> installed \cup {func_start},
              read_at |-> Some(func_start)]

\* Debugger::set_genfuture_poll_breakpoints on the image of the run
SlideEnable ==
    /\ next_id = 1
    /\ Apply(SetAsyncBreakpointBySymbolAt(breakpoints, next_id, memory, PollSymbol,
                                          arg[1].is_pie, arg[1].maps))
    /\ UNCHANGED <<process, arg, ret, removed, pc, async_exit_bps_installed, phase, hit, ran,
                   stop, entered>>
    /\ UNCHANGED trackerVars

\* the target stops at an enabled AsyncEntry breakpoint, and
\* handle_async_entry calls ensure_async_exit_breakpoints with the pc
SlideEntry ==
    /\ steps < MaxSlideEntries
    /\ \E bp_id \in DOMAIN breakpoints :
          /\ breakpoints[bp_id].bp.bp_type = "AsyncEntry" /\ breakpoints[bp_id].bp.enabled
          /\ LET entry_pc == breakpoints[bp_id].bp.address
                 ensured  == EnsureAsyncExitBreakpointsAt(breakpoints, next_id, memory,
                                                          async_exit_bps_installed, entry_pc,
                                                          arg[1].is_pie, arg[1].maps)
             IN  /\ pc' = entry_pc
                 /\ Apply(ensured.bm)
                 /\ async_exit_bps_installed' = ensured.installed
                 /\ ret' = Some([op |-> "ensure_async_exit_breakpoints",
                                 read_at |-> ensured.read_at])
    /\ steps' = steps + 1
    /\ UNCHANGED <<process, arg, removed, phase, hit, ran, stop, entered>>
    /\ UNCHANGED <<tasks, edges, callsites, scopes, clock, last, pending, open, born,
                   parented, chain, interned>>

InitSlide ==
    /\ \E image \in SlideImages : DebuggerOn(LoadedMemory(image)) /\ arg = Some(image)
    /\ process = Some(Pid)
    /\ ret = None

NextSlide == SlideEnable \/ DbgRemoveBreakpoint \/ SlideEntry

SpecSlide == InitSlide /\ [][NextSlide]_vars


(* SpecTrap: the debugger session of SpecDebug on a target that may carry a *)
(* trap instruction of its own (a compiled-in int3) in the closure's code.  *)

\* the target's memory with an int3 of the program's own in the closure
TrapMemory == [TargetMemory EXCEPT ![PollSymbol.address + 1] = INT3_OPCODE]

InitTrap ==
    /\ \E mem \in {TargetMemory, TrapMemory} : DebuggerOn(mem)
    /\ process = Some(Pid)
    /\ NoCall

SpecTrap == InitTrap /\ [][NextDebug]_vars


(* SpecNames: the entry and exit handlers on one thread of a target whose   *)
(* generators are polled from several poll functions (a future stored at    *)
(* offset 0 of another has its self pointer), with and without a            *)
(* discriminant read from the generator.                                    *)

\* tracker calls in one run
MaxNameSteps == 3

\* the entry breakpoints hit: the pc and the name its symbol resolves to
\* (None when reverse_resolve finds no symbol)
NameSites == {[rip |-> 101, function_name |-> Some("poll")],
              [rip |-> 102, function_name |-> Some("inner")],
              [rip |-> 103, function_name |-> None]}

\* the discriminants read_discriminant may return
NameDiscriminants == OptionOf({0, 1})

\* Debugger::handle_async_entry, as far as the tracker goes
NameEntry ==
    /\ Step(MaxNameSteps)
    /\ \E child \in TaskIds, site \in NameSites, discriminant \in NameDiscriminants :
           /\ OnPollEntry(Pid, child, site.rip, None, discriminant, site.function_name)
           /\ arg' = Some([op |-> "on_poll_entry", child |-> child, rip |-> site.rip,
                           discriminant |-> discriminant,
                           function_name |-> site.function_name])
    /\ UNCHANGED <<process, ret, breakpoints, next_id, memory, removed, pc,
                   async_exit_bps_installed, phase, hit, ran, stop, entered>>

\* Debugger::handle_async_exit, as far as the tracker goes (the stack walk
\* fails)
NameExit ==
    /\ Step(MaxNameSteps)
    /\ \E is_ready \in BOOLEAN : HandleAsyncExit(Pid, pc, is_ready, None)
    /\ arg' = None
    /\ UNCHANGED <<process, ret, breakpoints, next_id, memory, removed, pc,
                   async_exit_bps_installed, phase, hit, ran, stop, entered>>

NextNames == NameEntry \/ NameExit

SpecNames == Init /\ [][NextNames]_vars

-----------------------------------------------------------------------------
(* Properties *)

\* the stack of a thread's scope, empty when the scope was never created
StackOf(tid) == IF tid \in DOMAIN scopes THEN scopes[tid] ELSE <<>>

\* C1: after every on_poll_entry(tid, child, ...), whatever the state before
\* and wherever the parent came from, the top of the thread's scope is child.
C1_EntryTopIsChild ==
    last.op = "entry" =>
        /\ Len(StackOf(last.tid)) > 0
        /\ StackOf(last.tid)[Len(StackOf(last.tid))] = last.child[1]

\* C1 witness: an entry with an explicit parent onto a scope whose top was
\* another task than that parent.
C1_Witness ==
    /\ last.op = "entry" /\ last.parent_task # None
    /\ Len(StackOf(last.tid)) >= 2
    /\ StackOf(last.tid)[Len(StackOf(last.tid)) - 1] # last.parent_task[1]

\* C2: an entry directly followed (on that thread) by an exit, Pending or
\* Ready, leaves the thread's scope as it was before the entry.
C2_BalancedPair ==
    (last.op = "exit" /\ last.pre # None) => StackOf(last.tid) = last.pre[1]

\* C2 witness: a balanced pair with a Ready exit on a scope that was not
\* empty.
C2_Witness ==
    /\ last.op = "exit" /\ last.pre # None /\ last.is_ready
    /\ Len(last.pre[1]) > 0

\* C3: resync_from_stack(tid, S) leaves the thread's scope equal to S, for
\* every scope before it and every S.
C3_ResyncEqualsActual ==
    last.op = "resync" => StackOf(last.tid) = last.actual

\* C3 witness: a resync whose list shares a proper prefix with the scope
\* and then departs from it.
C3_Witness ==
    /\ last.op = "resync"
    /\ Len(last.actual) >= 2 /\ Len(last.pre[1]) >= 2
    /\ last.pre[1][1] = last.actual[1]
    /\ last.pre[1][2] # last.actual[2]

\* C4 (as claimed): every edge was created between two tasks that were both
\* in the task table when the edge was created.
C4_EdgeEndpointsLive ==
    \A id \in DOMAIN born : born[id].parent /\ born[id].child

\* C5: on_poll_entry selects explicit_parent if given, else the top of the
\* thread's scope before the push, else nothing; with no parent the child is
\* marked root and no edge changes; with a parent exactly one edge is
\* inserted or touched, and it runs from that parent to the child.
C5_ParentSelection ==
    [][ (last'.op = "entry" /\ steps' # steps) =>
          LET tid   == last'.tid
              child == last'.child[1]
              top   == IF tid \in DOMAIN scopes /\ Len(scopes[tid]) > 0
                       THEN Some(scopes[tid][Len(scopes[tid])]) ELSE None
              sel   == IF last'.parent_task # None THEN last'.parent_task ELSE top
          IN  IF sel = None
              THEN /\ edges' = edges
                   /\ child \in DOMAIN tasks' /\ tasks'[child].is_root
              ELSE \E id \in DOMAIN edges' :
                      /\ edges'[id].parent = sel[1] /\ edges'[id].child = child
                      /\ DOMAIN edges' = DOMAIN edges \cup {id}
                      /\ \A k \in DOMAIN edges : k # id => edges'[k] = edges[k]
                      /\ id \in DOMAIN edges =>
                           edges'[id] = [edges[id] EXCEPT !.last_seen = edges'[id].last_seen]
      ]_vars

\* C5 witness: an entry with an explicit parent that differs from the scope
\* top it overrides, after an entry whose parent came from the scope top.
C5_Witness ==
    /\ last.op = "entry" /\ last.parent_task # None /\ last.edge # None
    /\ Len(StackOf(last.tid)) >= 2
    /\ StackOf(last.tid)[Len(StackOf(last.tid)) - 1] # last.parent_task[1]
    /\ edges[last.edge[1]].parent = last.parent_task[1]

\* C6 (as claimed): a task is root if and only if no entry ever selected a
\* parent for it and no edge has it as child.
C6_RootIffNoParent ==
    \A t \in DOMAIN tasks :
        tasks[t].is_root <=>
            (t \notin parented /\ \A id \in DOMAIN edges : edges[id].child # t)

\* C7 (as claimed): the Ready exit that pops a task pushed by an entry marks
\* the edge which that entry created or touched completed, and the task too.
C7_ReadyExitCompletes ==
    (last.op = "exit" /\ last.is_ready /\ last.popped # None /\ last.edge # None) =>
        /\ last.edge[1] \in DOMAIN edges /\ edges[last.edge[1]].completed
        /\ last.popped[1] \in DOMAIN tasks /\ tasks[last.popped[1]].completed

\* C8: once an edge is completed, no entry, exit or resync sets it back.
C8_CompletedMonotonic ==
    [][ \A id \in DOMAIN edges :
          edges[id].completed => (id \in DOMAIN edges' /\ edges'[id].completed) ]_vars

\* C8 witness: an entry that touched an edge which was completed before and
\* is completed still.
C8_Witness ==
    /\ last.op = "entry" /\ last.edge # None
    /\ edges[last.edge[1]].completed
    /\ edges[last.edge[1]].last_seen > edges[last.edge[1]].first_seen

\* C9: there is at most one edge per (parent, child, callsite).
C9_OneEdgePerTriple ==
    \A i, j \in DOMAIN edges :
        ( /\ edges[i].parent = edges[j].parent
          /\ edges[i].child = edges[j].child
          /\ edges[i].callsite = edges[j].callsite ) => i = j

\* C9 witness: a repeated entry touched the edge of its triple, beside another
\* edge of the same parent and child at another callsite.
C9_Witness ==
    /\ last.op = "entry" /\ last.edge # None
    /\ edges[last.edge[1]].last_seen > edges[last.edge[1]].first_seen
    /\ \E k \in DOMAIN edges :
          /\ k # last.edge[1]
          /\ edges[k].parent = edges[last.edge[1]].parent
          /\ edges[k].child = edges[last.edge[1]].child

C11_SiblingCallsitesDistinct ==
    LET R == SiblingTasks[1]
        X == SiblingTasks[2]
        Y == SiblingTasks[3]
    IN  /\ steps = 3 => StackOf(1) = <<R>>
        /\ steps = 4 =>
              /\ \E i \in DOMAIN edges : edges[i].parent = R /\ edges[i].child = X
              /\ \E j \in DOMAIN edges : edges[j].parent = R /\ edges[j].child = Y
              /\ \A i, j \in DOMAIN edges :
                    ( /\ edges[i].parent = R /\ edges[i].child = X
                      /\ edges[j].parent = R /\ edges[j].child = Y )
                    => edges[i].callsite # edges[j].callsite


\* C12 (as claimed): after the entries R, A, B of one thread and an unwind
\* past the exit traps of B and A, handling R's exit event leaves the scope
\* with no task that is not on the actual task list [R], and completes
\* neither A nor B nor any of the edges R->A and A->B.
C12_ResyncAfterMissedExit ==
    LET R == ChainTasks[1]
        A == ChainTasks[2]
        B == ChainTasks[3]
    IN  steps = 4 =>
            /\ StackOf(1) \in {<<>>, <<R>>}
            /\ ~tasks[A].completed /\ ~tasks[B].completed
            /\ \A k \in DOMAIN edges : ~edges[k].completed

\* C13: on_poll_exit on a thread whose scope is empty or was never created
\* completes nothing: tasks, edges and callsites are unchanged and the scope
\* is empty afterwards.
C13_ExitOnEmptyScope ==
    [][ ( /\ last'.op = "exit" /\ steps' # steps
          /\ (last'.tid \notin DOMAIN scopes \/ scopes[last'.tid] = <<>>) ) =>
            /\ tasks' = tasks
            /\ edges' = edges
            /\ callsites' = callsites
            /\ last'.tid \in DOMAIN scopes' => scopes'[last'.tid] = <<>>
      ]_vars

\* C13 witness: a Ready exit that popped nothing, on a tracker that holds
\* an edge and tasks which are not completed.
C13_Witness ==
    /\ last.op = "exit" /\ last.is_ready /\ last.popped = None
    /\ StackOf(last.tid) = <<>>
    /\ DOMAIN edges # {}
    /\ \A k \in DOMAIN edges : ~edges[k].completed
    /\ \A t \in DOMAIN tasks : ~tasks[t].completed

\* C15 (as claimed): every breakpoint marked enabled has the trap opcode at
\* its address in the target's memory.
C15_EnabledHasTrap ==
    \A id \in DOMAIN breakpoints :
        breakpoints[id].bp.enabled => memory[breakpoints[id].bp.address] = INT3_OPCODE

\* C16 (as claimed): wherever a breakpoint was removed and none is left, the
\* byte is the program's own byte again.
C16_RemoveRestoresByte ==
    \A address \in removed :
        (\A id \in DOMAIN breakpoints : breakpoints[id].bp.address # address)
            => memory[address] = Program[address]

\* C17 (as claimed): no two enabled breakpoints share an address.
C17_OneEnabledPerAddress ==
    \A i, j \in DOMAIN breakpoints :
        ( /\ breakpoints[i].bp.enabled /\ breakpoints[j].bp.enabled
          /\ breakpoints[i].bp.address = breakpoints[j].bp.address ) => i = j

\* C14 (as claimed): every entry and exit event reaches the tracker tagged
\* with the id of the target thread that ran into the trap.
C14_TaggedWithTrapThread ==
    [][ (steps' # steps /\ last'.op \in {"entry", "exit"}) => last'.tid = hit' ]_vars

\* C18 (as claimed): when continue is issued with the pc on an enabled
\* breakpoint, the memory at the pc holds the program's byte for the single
\* step, the step executes that one instruction of the program, the trap is
\* back at the address before the target is resumed, and the stop that
\* follows is reported at a breakpoint.
C18_StepOverBreakpoint ==
    /\ phase.at = "disabled" => memory[pc] = Program[pc]
    /\ phase.at = "stepped" =>
          /\ ran # None
          /\ ran[1].pc = breakpoints[phase.bp_id[1]].bp.address
          /\ ran[1].byte = Program[ran[1].pc]
          /\ pc = NextPc(ran[1].pc)
    /\ (phase.at = "resume" /\ phase.bp_id # None) =>
          /\ breakpoints[phase.bp_id[1]].bp.enabled
          /\ memory[breakpoints[phase.bp_id[1]].bp.address] = INT3_OPCODE
    /\ (phase = Idle /\ stop # None /\ stop[1].over # None) =>
          /\ stop[1].reason = "Breakpoint"
          /\ stop[1].bp_id # None

\* C19 (as claimed): an AsyncExit breakpoint exists only in a function whose
\* entry breakpoint has been hit and handled.
C19_ExitBreakpointsAfterEntry ==
    \A id \in DOMAIN breakpoints :
        breakpoints[id].bp.bp_type = "AsyncExit" =>
            /\ ReverseResolve(breakpoints[id].bp.address) # None
            /\ ReverseResolve(breakpoints[id].bp.address)[1].address \in entered

\* C20: callsite interning is deterministic: any two registrations of the
\* same (parent, suspend_idx, file, line) returned the same callsite id, and
\* the callsite table holds exactly one record of it, under that id.
C20_CallsiteInterning ==
    /\ \A i, j \in 1..Len(interned) :
          interned[i].callsite = interned[j].callsite => interned[i].id = interned[j].id
    /\ \A i \in 1..Len(interned) :
          /\ interned[i].id \in DOMAIN callsites
          /\ {k \in DOMAIN callsites : callsites[k] = interned[i].callsite} = {interned[i].id}

\* C20 witness: a callsite was registered, then another one, then the first
\* one again, and the table holds two records.
C20_Witness ==
    /\ Len(interned) >= 3
    /\ \E i, j \in 1..Len(interned) :
          /\ i < j /\ j < Len(interned)
          /\ interned[i].callsite = interned[Len(interned)].callsite
          /\ interned[j].callsite # interned[i].callsite
    /\ Cardinality(DOMAIN callsites) = 2

\* C21: a second on_poll_entry for a task already in the task table advances
\* that task's last_seen and leaves its first_seen untouched, and so it does
\* for the edge it touches when that edge exists already.
C21_RepollTouches ==
    [][ (last'.op = "entry" /\ steps' # steps) =>
          LET child == last'.child[1]
              edge  == last'.edge
          IN  /\ child \in DOMAIN tasks =>
                    /\ tasks'[child].first_seen = tasks[child].first_seen
                    /\ tasks'[child].last_seen > tasks[child].last_seen
              /\ (edge # None /\ edge[1] \in DOMAIN edges) =>
                    /\ edges'[edge[1]].first_seen = edges[edge[1]].first_seen
                    /\ edges'[edge[1]].last_seen > edges[edge[1]].last_seen
      ]_vars

\* C21 witness: the last call was an entry of a task polled before, over an
\* edge registered before: both were seen first earlier than they were seen
\* last.
C21_Witness ==
    /\ last.op = "entry" /\ last.edge # None
    /\ tasks[last.child[1]].first_seen < tasks[last.child[1]].last_seen
    /\ tasks[last.child[1]].last_seen = clock - 1
    /\ edges[last.edge[1]].first_seen < edges[last.edge[1]].last_seen
    /\ edges[last.edge[1]].last_seen = clock - 1

\* C22: breakpoint ids are strictly increasing in installation order and
\* never reused, also after removals and failed installs.  next_id is the
\* high-water mark: it never decreases, a record that enters the table has
\* the id next_id had before the call, which is above the id of every record
\* of the table, and next_id is above it afterwards; so each id handed out
\* is above every id handed out before, whatever was removed or failed since.
C22_IdsIncrease ==
    [][ /\ next_id' >= next_id
        /\ \A k \in DOMAIN breakpoints : k < next_id
        /\ \A k \in DOMAIN breakpoints' \ DOMAIN breakpoints :
              /\ k = next_id
              /\ k < next_id'
              /\ breakpoints'[k].bp.id = k
      ]_vars

\* C22 witness: the third id was handed out after the records of the first
\* two installs had been removed from the table or had never entered it.
C22_Witness ==
    /\ DOMAIN breakpoints = {3}
    /\ removed # {}
    /\ next_id = 4

\* C23: in every state of the manager, an install at an address whose byte
\* cannot be read or cannot be written returns an error, adds no record to
\* the table and leaves the target's memory as it was.
C23_FailedInstallLeavesNothing ==
    \A address \in InstallAddresses, bp_type \in BreakpointTypes :
        LET r == AddAndEnableWithType(breakpoints, next_id, memory, address, bp_type)
        IN  (ReadU8(memory, address) = None \/ WriteU8(memory, address, INT3_OPCODE) = None)
                => /\ r.result = None
                   /\ r.breakpoints = breakpoints
                   /\ r.mem = memory

\* C23 witness: two installs have failed (two ids are consumed, nothing was
\* removed and one record is in the table) and the memory holds that
\* record's trap and the program's bytes elsewhere.
C23_Witness ==
    /\ next_id = 4
    /\ removed = {}
    /\ \E id \in DOMAIN breakpoints :
          /\ DOMAIN breakpoints = {id}
          /\ memory = [TargetMemory EXCEPT ![breakpoints[id].bp.address] = INT3_OPCODE]

\* C24 (as claimed): on a debugger that holds no target, every call that
\* needs the target (continue, continue-and-wait, single step, breakpoint
\* install and removal, backtrace, get pc) fails with the not-attached error
\* and changes no state of the debugger.
C24_UnattachedCallsFail ==
    [][ (process = None /\ process' = None) =>
          /\ ret' # None
          /\ ret'[1] = Err(ERR_NOT_ATTACHED)
          /\ UNCHANGED <<breakpoints, next_id, memory, pc, async_exit_bps_installed, phase,
                         tasks, edges, callsites, scopes>>
      ]_vars

\* the slide of an image as the claim defines it: 0 for a non-PIE image,
\* for a PIE image the start of the first executable mapping minus its
\* offset in the file
C25_Slide(input) ==
    IF ~input.is_pie THEN 0
    ELSE LET first == CHOOSE i \in 1..Len(input.maps) :
                         /\ input.maps[i].executable
                         /\ \A j \in 1..(i - 1) : ~input.maps[j].executable
         IN  input.maps[first].start - input.maps[first].offset

\* C25: PIE slide round trip: for every file offset x whose runtime address
\* slide + x is an address (64-bit arithmetic does not overflow), the runtime
\* address is slide + x and runtime_to_file(file_to_runtime(x)) = x, where
\* the slide is 0 for a non-PIE image and the start of the first executable
\* mapping minus its file offset for a PIE image.
C25_SlideRoundTrip ==
    (/\ arg # None /\ ret # None
     /\ arg[1].is_pie => \E i \in 1..Len(arg[1].maps) : arg[1].maps[i].executable
     /\ C25_Slide(arg[1]) + arg[1].offset < AddressSpace)
        => /\ ret[1].runtime = Ok(C25_Slide(arg[1]) + arg[1].offset)
           /\ ret[1].file = Ok(arg[1].offset)

\* C25 witness: a PIE image whose first executable mapping is its second
\* line, mapped from a file offset above 0, and an offset above 0 have made
\* the round trip.
C25_Witness ==
    /\ arg # None /\ ret # None
    /\ arg[1].is_pie /\ Len(arg[1].maps) = 2
    /\ ~arg[1].maps[1].executable /\ arg[1].maps[2].executable
    /\ arg[1].maps[2].offset > 0 /\ arg[1].offset > 0
    /\ ret[1].runtime.ok /\ ret[1].runtime.value > arg[1].offset
    /\ ret[1].file = Ok(arg[1].offset)

\* C26 (as claimed): reverse_resolve(offset) returns the symbol whose range
\* [address, address + size) contains the offset, or the nearest lower
\* symbol only if that symbol records no size; so an offset inside a
\* symbol's range is resolved, and an offset past the end of the last symbol
\* is not.
C26_ReverseResolveInRange ==
    (arg # None /\ ret # None) =>
        LET symbols == arg[1].symbols
            addr    == arg[1].addr
            found   == ret[1]
            Holds(sym) == sym.address <= addr /\ addr < sym.address + sym.size
        IN  /\ found # None =>
                  /\ \E i \in 1..Len(symbols) : symbols[i] = found[1]
                  /\ \/ Holds(found[1])
                     \/ /\ found[1].size = 0
                        /\ found[1].address <= addr
                        /\ \A i \in 1..Len(symbols) :
                              symbols[i].address <= addr
                                  => symbols[i].address <= found[1].address
            /\ (\E i \in 1..Len(symbols) : Holds(symbols[i])) => found # None

\* C27 (as claimed): whenever find_first_line_in_range(lo, hi) returns an
\* address, it is strictly greater than lo, below hi, and the address of an
\* is_stmt row of a line program (a row that carries a line and does not end
\* a sequence), the first such row of that program.
C27_FirstLineInRange ==
    (arg # None /\ ret # None /\ ret[1].ok /\ ret[1].value # None) =>
        LET found == ret[1].value[1]
            lo    == arg[1].lo
            hi    == arg[1].hi
            InRange(row) == /\ row.is_stmt /\ row.line > 0 /\ ~row.end_sequence
                            /\ lo < row.address /\ row.address < hi
        IN  /\ lo < found /\ found < hi
            /\ \E u \in 1..Len(arg[1].units) :
                  /\ arg[1].units[u] # None
                  /\ \E i \in 1..Len(arg[1].units[u][1]) :
                        /\ arg[1].units[u][1][i].address = found
                        /\ InRange(arg[1].units[u][1][i])
                        /\ \A j \in 1..(i - 1) : ~InRange(arg[1].units[u][1][j])

\* the path has the segment somewhere
C28_HasSegment(segs, segment) == \E i \in 1..Len(segs) : segs[i] = segment

\* the name of the path contains ::segment::
C28_HasInner(segs, segment) == \E i \in 2..(Len(segs) - 1) : segs[i] = segment

\* the name of the path starts with one of the configured prefixes: a crate
\* of the list followed by ::, or parking_lot
C28_HasExcludedPrefix(segs) ==
    /\ segs # <<>>
    /\ \/ segs[1] = "parking_lot"
       \/ /\ Len(segs) >= 2
          /\ segs[1] \in {"tokio", "async_std", "futures", "mio", "std", "core", "alloc",
                          "hashbrown", "tracing", "serde", "log", "bytes", "hyper", "h2"}

\* C28 (as claimed): is_user_async_closure(name) is true if and only if the
\* name contains {{closure}}, contains none of {{constant}}, ::runtime::,
\* ::executor::, ::task::, and starts with none of the configured prefixes.
C28_Original ==
    (arg # None /\ ret # None) =>
        (ret[1] <=> /\ C28_HasSegment(arg[1], "{{closure}}")
                    /\ ~C28_HasSegment(arg[1], "{{constant}}")
                    /\ \A marker \in {"runtime", "executor", "task"} :
                          ~C28_HasInner(arg[1], marker)
                    /\ ~C28_HasExcludedPrefix(arg[1]))

\* C28 (amended): is_user_async_closure(name) is true if and only if the
\* name contains {{closure}}, contains none of {{constant}}, ::runtime::,
\* ::executor::, ::task::, drop_in_place, ::fmt::, ::clone::, ::drop::, and
\* starts with none of the configured prefixes.
C28_UserAsyncClosure ==
    (arg # None /\ ret # None) =>
        (ret[1] <=> /\ C28_HasSegment(arg[1], "{{closure}}")
                    /\ ~C28_HasSegment(arg[1], "{{constant}}")
                    /\ ~C28_HasSegment(arg[1], "drop_in_place")
                    /\ \A marker \in {"runtime", "executor", "task", "fmt", "clone", "drop"} :
                          ~C28_HasInner(arg[1], marker)
                    /\ ~C28_HasExcludedPrefix(arg[1]))

\* C28 witness: the detector has accepted a closure of a user's path that
\* has a runtime's crate name inside, and so a name that contains tokio::
\* and does not start with it.
C28_Witness ==
    /\ arg # None /\ ret # None
    /\ ret[1]
    /\ Len(arg[1]) = 3 /\ arg[1][1] = "my_app" /\ arg[1][2] = "tokio"

\* C29 (as claimed): the frame-pointer walk terminates for every content of
\* the target's memory, cyclic and non-advancing chains included, and
\* returns at most 100 frames; it stops when the frame pointer is zero,
\* unmapped or fails to advance: the walk goes on from a frame only if the
\* frame pointer it holds is mapped and above the one of the frame before.
C29_WalkTerminates ==
    /\ <>(ret # None /\ ret[1].done)
    /\ [](ret # None =>
            /\ Len(ret[1].frames) <= MAX_FRAMES
            /\ \A i \in 2..Len(ret[1].frames) :
                  (i < Len(ret[1].frames) \/ ~ret[1].done) =>
                      /\ ret[1].frames[i].rbp > ret[1].frames[i - 1].rbp
                      /\ (i < Len(ret[1].frames) =>
                             IsMapped(arg[1].stack, ret[1].frames[i].rbp)))

\* C30 (as claimed): step() issued with the pc on an enabled breakpoint makes
\* progress: on return the target has executed the instruction at that
\* address and the pc is past it; the pc is not set back to the address of
\* the breakpoint and Breakpoint is not reported for it again, also when the
\* instruction is one byte long and new_pc - 1 is the starting address.
C30_StepLeavesBreakpoint ==
    (/\ arg = Some([op |-> "step", value |-> 0])
     /\ stop # None /\ stop[1].over # None) =>
        /\ ran[1].byte = Program[ran[1].pc]
        /\ pc = NextPc(ran[1].pc)
        /\ pc # ran[1].pc
        /\ ~(stop[1].reason = "Breakpoint" /\ stop[1].pc = ran[1].pc)

\* C31: when the exit handler resyncs the scope from the tasks of the OS
\* stack, the exit that follows pops the innermost task of the OS stack: the
\* task of the first frame of the backtrace that is a closure frame with a
\* self pointer, which is where a sequence of entries would have left it.
C31_ResyncTopIsInnermost ==
    [][(/\ steps' # steps
        /\ arg' # None /\ arg'[1].op = "handle_async_exit"
        /\ AsyncBacktrace(Pid) = <<>>
        /\ arg'[1].value # None)
       => LET frames == arg'[1].value[1]
              async  == {i \in DOMAIN frames :
                            /\ frames[i].function_name # None
                            /\ Contains(frames[i].function_name[1], <<"{{closure}}">>)
                            /\ frames[i].saved_rdi # None}
              first  == CHOOSE i \in async : \A j \in async : i <= j
          IN  async # {} => last'.popped = frames[first].saved_rdi]_vars

\* the target is stopped on an enabled AsyncEntry or AsyncExit breakpoint
C32_AtAsyncBreakpoint ==
    \E id \in DOMAIN breakpoints :
        /\ breakpoints[id].bp.address = pc
        /\ breakpoints[id].bp.enabled
        /\ breakpoints[id].bp.bp_type \in {"AsyncEntry", "AsyncExit"}

\* C32: a call of step that moves the target onto an enabled AsyncEntry or
\* AsyncExit breakpoint, and a call of continue_and_wait that stops it on one,
\* produce exactly one tracker event.
C32_OneEventPerArrival ==
    [][(/\ \/ DbgStep /\ pc' # pc
           \/ ContinueResume /\ stop'[1].reason = "Breakpoint"
        /\ C32_AtAsyncBreakpoint')
       => steps' = steps + 1]_vars

\* the breakpoint id is enabled after the step: its records say so and the
\* target's memory, where there is any, holds the trap
C33_EnabledAfter(id) ==
    /\ id \in DOMAIN breakpoints'
    /\ breakpoints'[id].bp.enabled
    /\ breakpoints'[id].sw.enabled
    /\ breakpoints'[id].bp.address \in DOMAIN memory'
          => memory'[breakpoints'[id].bp.address] = INT3_OPCODE

\* C33: when step returns, with a value or with an error, every breakpoint
\* that was enabled when it was called is enabled; and when continue_and_wait
\* returns, the breakpoint it disabled for its step-over is enabled.
C33_DisabledOnlyForStepOver ==
    [][/\ (DbgStep \/ DbgStepFault)
            => \A id \in DOMAIN breakpoints :
                   (breakpoints[id].bp.enabled
                       /\ memory[breakpoints[id].bp.address] = INT3_OPCODE)
                   => C33_EnabledAfter(id)
       /\ (phase # Idle /\ phase' = Idle /\ phase.bp_id # None)
            => C33_EnabledAfter(phase.bp_id[1])]_vars

\* C34: no task that is on the poll scope of some thread, that is whose poll
\* is in progress, is completed.
C34_PolledNotCompleted ==
    \A tid \in DOMAIN scopes : \A i \in DOMAIN scopes[tid] :
        scopes[tid][i] \in DOMAIN tasks => ~tasks[scopes[tid][i]].completed

\* C35: the await graph holds no self-loop: no edge has its parent for child.
C35_NoSelfLoop ==
    \A id \in DOMAIN edges : edges[id].parent # edges[id].child

\* C36: a call of on_poll_entry, on_poll_exit or resync_from_stack for thread
\* T leaves every other thread as it was: a scope is neither created nor
\* removed nor changed for it, and async_backtrace returns for it what it
\* returned before the call.
C36_ThreadIsolation ==
    [][steps' # steps =>
          \A other \in Tids \ {last'.tid} :
              /\ (other \in DOMAIN scopes') = (other \in DOMAIN scopes)
              /\ other \in DOMAIN scopes => scopes'[other] = scopes[other]
              /\ AsyncBacktrace(other)' = AsyncBacktrace(other)]_vars

\* C36 witness: a call for thread 1 has been made while thread 2 was inside
\* a poll: its scope holds a task.
C36_Witness ==
    /\ last.tid = 1 /\ last.op \in {"entry", "exit", "resync"}
    /\ 2 \in DOMAIN scopes /\ Len(scopes[2]) > 0
    /\ AsyncBacktrace(2) = scopes[2]

\* the AsyncExit breakpoints of the table bps at address
C37_ExitBreakpointsAt(bps, address) ==
    {id \in DOMAIN bps : bps[id].bp.bp_type = "AsyncExit" /\ bps[id].bp.address = address}

\* the async closure holds a ret instruction: the target's memory shows it,
\* or an enabled breakpoint keeps it as the byte its trap replaced
C37_HasRet ==
    \E address \in PollSymbol.address..(PollSymbol.address + PollSymbol.size - 1) :
        \/ memory[address] = RET_OPCODE
        \/ \E id \in DOMAIN breakpoints :
               /\ breakpoints[id].sw.address = address /\ breakpoints[id].sw.enabled
               /\ breakpoints[id].sw.original_byte = RET_OPCODE

\* C37: exit breakpoints are installed once per function: no address ever
\* carries more than one AsyncExit breakpoint; an AsyncEntry hit of a
\* function whose start is in async_exit_bps_installed installs nothing; and
\* a function without a ret instruction has no exit breakpoint, while every
\* stop at its AsyncEntry breakpoint is still handed to the tracker as an
\* entry.
C37_ExitInstallIdempotent ==
    [][/\ \A address \in DOMAIN Program :
              Cardinality(C37_ExitBreakpointsAt(breakpoints', address)) <= 1
       /\ (/\ steps' # steps /\ last'.op = "entry"
           /\ ReverseResolve(pc') # None
           /\ ReverseResolve(pc')[1].address \in async_exit_bps_installed)
          => breakpoints' = breakpoints
       /\ ~C37_HasRet
          => /\ \A address \in DOMAIN Program :
                    C37_ExitBreakpointsAt(breakpoints', address) = {}
             /\ (/\ phase.at = "resume" /\ phase' = Idle
                 /\ stop'[1].bp_id # None
                 /\ breakpoints[stop'[1].bp_id[1]].bp.bp_type = "AsyncEntry")
                => (steps' = steps + 1 /\ last'.op = "entry")]_vars

\* C37 witness: the closure that returns has been entered at least twice;
\* the last stop was an entry of the function, whose start is in
\* async_exit_bps_installed, and its ret carries exactly one AsyncExit
\* breakpoint, enabled over the ret.
C37_Witness ==
    /\ clock >= 2 /\ last.op = "entry"
    /\ PollSymbol.address \in async_exit_bps_installed
    /\ \E id \in DOMAIN breakpoints :
           /\ C37_ExitBreakpointsAt(breakpoints, 12) = {id}
           /\ breakpoints[id].sw.enabled
           /\ breakpoints[id].sw.original_byte = RET_OPCODE

\* the slide of the image of the run: its base if it is position-independent
C39_Slide == IF arg[1].is_pie THEN arg[1].maps[1].start - arg[1].maps[1].offset ELSE 0

\* C39: at an entry to the closure the function's bytes are read at the
\* runtime address of its start, the file offset of the symbol plus the
\* slide, and every AsyncExit breakpoint the entry installs is at the runtime
\* address of a ret of the closure: the file offset of the ret plus the slide.
C39_ExitsAtRuntimeAddresses ==
    [][steps' # steps =>
          /\ ret'[1].read_at # None
                => ret'[1].read_at[1] = PollSymbol.address + C39_Slide
          /\ \A id \in DOMAIN breakpoints' \ DOMAIN breakpoints :
                /\ breakpoints'[id].bp.bp_type = "AsyncExit"
                /\ \E i \in DOMAIN arg[1].code :
                      /\ arg[1].code[i] = RET_OPCODE
                      /\ breakpoints'[id].bp.address = PollSymbol.address + i + C39_Slide]_vars


\* C38: whenever continue_and_wait returns StopReason::Breakpoint, the pc it
\* leaves in the target is the address of an enabled breakpoint of the table.
C38_BreakpointStopAtEnabled ==
    [][(ContinueResume /\ stop'[1].reason = "Breakpoint")
          => FindByAddress(breakpoints', pc') # {}]_vars


\* C40: task names are sticky: an on_poll_entry never changes a type_name
\* that is already set, while it always stores the rip as last_rip and stores
\* the discriminant whenever one is supplied.
C40_StickyNames ==
    [][NameEntry =>
          LET child == arg'[1].child
          IN  /\ child \in DOMAIN tasks'
              /\ tasks'[child].last_rip = Some(arg'[1].rip)
              /\ arg'[1].discriminant # None =>
                     tasks'[child].current_discriminant = arg'[1].discriminant
              /\ (child \in DOMAIN tasks /\ tasks[child].type_name # None) =>
                     tasks'[child].type_name = tasks[child].type_name]_vars

\* a task named by its first entry was entered again from a function of
\* another name, which supplied its rip and a discriminant
C40_Witness ==
    /\ clock >= 2
    /\ arg # None
    /\ arg[1].function_name # None
    /\ arg[1].child \in DOMAIN tasks
    /\ LET t == tasks[arg[1].child]
       IN  /\ t.type_name # None
           /\ t.type_name # arg[1].function_name
           /\ t.first_seen < t.last_seen
           /\ t.last_rip = Some(arg[1].rip)
           /\ t.current_discriminant = Some(1)
           /\ arg[1].discriminant = Some(1)

=============================================================================
